---------------------------- MODULE Spec2Model ----------------------------
(***************************************************************************)
(* Model of the smartHome identification-to-session pipeline:             *)
(*   Detector     src/facial_req.py  FaceRecognition.run                   *)
(*   IdentityBox  src/facial_req.py  _person / _new_person_found / _lock   *)
(*   Orchestrator src/driver.py      SmartHomeDriver.run/_handle_new_user  *)
(*   SessionManager + Dispatcher  src/logic.py  Users                      *)
(*                                                                         *)
(* Threads interleave between any two accesses to shared attributes: the  *)
(* code takes a lock only inside the three IdentityBox accessors, and      *)
(* Users takes no lock at all.  Every action below is one such access      *)
(* (one statement, or one half of the statement                            *)
(* `self.cur_user = self._statuses[0]`, whose load and store are separate  *)
(* interpreter steps).                                                     *)
(***************************************************************************)
EXTENDS Integers, Sequences, FiniteSets, TLC

\* ------------------------------------------------------------------ bounds
\* Number of SessionManager.login calls explored.
MaxLogins == 2
\* Number of IdentityBox writes by the Detector explored.
MaxWrites == 2
\* Number of known embeddings in the vote specification.
NKnown == 4
\* CommandInput reads the Dispatcher makes in the command specification
MaxReads == 4
\* Errors on record in the ErrorRegistry specification
MaxErrors == 3
\* WeatherCache: the cache duration, the clock's range and the number of
\* backend calls, in clock units
WxTTL == 2
MaxTime == 2
MaxBackend == 2
\* LightController: brightness arguments run from -MaxBelow to MaxBrightness
MaxBelow == 5
MaxBrightness == 150
\* Detector lifecycle: stop() calls and frames counted
MaxStops == 2
MaxFrames == 3
\* Faces in one frame.
MaxFaces == 2
\* IdentityBox writes explored in the sequential specification: one more,
\* so that the same person can be recognised, replaced and recognised again.
MaxWritesSeq == MaxWrites + 1

\* ------------------------------------------------------- program constants
\* data["names"]: the name of each known embedding, in file order.
KnownNames == << "Alice", "Bob" >>
\* Names that may label a known embedding in the vote specification.
VoteNames == { "Alice", "Bob", "Carol" }
\* Every outcome of face_recognition.compare_faces on the known embeddings.
MatchVectors == [1..Len(KnownNames) -> BOOLEAN]
\* Dispatcher threads that can ever be created (one per login at most).
Workers == 1..MaxLogins

VARIABLES
    \* Detector (FaceRecognition.run locals)
    currentname,        \* last emitted identity, local to the worker
    det_pc,             \* the worker is at the vote of a face ("vote") or
                        \* has updated currentname and is at the
                        \* `with self._lock:` of the write ("store")
    \* IdentityBox (guarded by FaceRecognition._lock)
    person,             \* FaceRecognition._person
    new_person_found,   \* FaceRecognition._new_person_found
    \* Orchestrator (SmartHomeDriver.run / _handle_new_user / Users.log_in)
    orch_pc,            \* next statement of the main thread
    user_name,          \* local of _handle_new_user
    li_head,            \* value of self._statuses[0] loaded in log_in
    \* SessionManager (Users)
    statuses,           \* Users._statuses
    cur_user,           \* Users.cur_user
    users_running,      \* Users.running
    worker_pc,          \* next statement of each Dispatcher thread
    lo_head,            \* value of self._statuses[0] loaded in logout
    \* history (observations, never read by the program's actions)
    detWrites,          \* Detector writes that set changed = true
    logins,             \* calls of Users.log_in
    winners,            \* vote winners of all faces processed so far
    lastFace,           \* what the last processed face did: "unmatched",
                        \* "emitted" (IdentityBox written) or "repeated"
    quietAfterLogin,    \* the last completed poll tick called log_in and
                        \* the Detector has not written since it ended
    fifo,               \* the queue an atomic login/logout would hold
    \* vote specification
    vote_names, vote_matches, vote_result,
    \* Dispatcher commands (Users._command_loop and its handlers)
    said,               \* what the Dispatcher printed for the current command
    reads,              \* CommandInput reads made so far
    last_read,          \* what the last read returned: "line" or "eof"
    stream_closed,      \* CommandInput has signalled stream-closed
    called,             \* the collaborator call of the current command
    \* ErrorRegistry (ErrorHandler)
    error_count,        \* ErrorHandler.error_count, items in insertion order
    recovery_strategies,\* keys of ErrorHandler.recovery_strategies
    last_error,         \* argument of the last handle_error call
    last_outcome,       \* what the strategy called by that call did
    last_invoked,       \* component whose strategy that call invoked
    last_result,        \* return value of that call
    stats,              \* return value of the last get_error_stats call
    \* WeatherCache (WeatherService)
    wx_now,             \* time.time(), in whole units
    wx_cache,           \* WeatherService.cache, << >> where a key is absent
    wx_stamp,           \* WeatherService.last_cache_time, -1 where absent
    wx_mock,            \* config weather.use_mock_data
    wx_calls,           \* requests.get calls made so far
    wx_last,            \* the last get_weather call that returned and its
                        \* outcome
    wx_pc,              \* per caller: "idle", "check" before the cache
                        \* check, "hit" before the read of the cache,
                        \* "request" while its requests.get is in flight,
                        \* "cache" and "stamp" before the two stores of
                        \* _cache_weather_data
    wx_req,             \* per caller: the call under way: its format, the
                        \* mock flag it read, the value the cache held at
                        \* its check, its request and the answer
    wx_cached,          \* per format: when self.cache was last written, -1
                        \* if never
    \* LightController (SmartLightController)
    lit_action,         \* control_lights' action argument
    lit_brightness,     \* its brightness keyword: given or not, and the value
    lit_color,          \* its color keyword, "None" when absent
    lit_dev,            \* what each kasa invocation does when it is made
    lit_sent,           \* the kasa invocations made, in order
    lit_result,         \* "pending", "true", or "error" (SmartLightError)
    lit_pc,             \* where the call is: "switch", "brightness", "hsv",
                        \* the same with "_wait" while subprocess.run has
                        \* not returned, "done"
    lit_wire,           \* the kasa invocations the device has received from
                        \* every caller, in order
    lit_peer,           \* the action of a second thread's control_lights
                        \* call, "none" when there is no such call
    lit_peer_result,    \* its result: "none", "pending", "true", "error"
    lit_peer_pc,        \* where it is: "switch", "switch_wait", "done"
    \* Detector lifecycle (FaceRecognition.start / stop / run)
    cam_running,        \* FaceRecognition.running
    cam_thread,         \* where the worker thread is: "new", "init", "warm",
                        \* "loop", "frame", "faces", "lock", "write",
                        \* "report", "finally", "dead"
    cam_vs,             \* self.vs: "none", "open", "released"
    cam_start,          \* what start() gave its caller: "none", "ok", "error"
    cam_stop_pc,        \* where a stop() call is: "idle", "join", "release"
    cam_stops,          \* stop() calls completed
    cam_frames,         \* frames processed
    \* Detector frame loop (FaceRecognition.run, the loop body) and the lock
    det_names,          \* `names`: the name of each face of the current
                        \* frame processed so far
    det_writes,         \* IdentityBox writes made for the current frame
    det_last,           \* how the last pass of the loop body ended
    box_lock            \* holder of FaceRecognition._lock, or "free"

detVars  == << currentname, det_pc >>
boxVars  == << person, new_person_found >>
orchVars == << orch_pc, user_name, li_head >>
sessVars == << statuses, cur_user, users_running, worker_pc, lo_head >>
histVars == << detWrites, logins, winners, lastFace, quietAfterLogin, fifo >>
voteVars == << vote_names, vote_matches, vote_result >>
cmdVars  == << said, reads, last_read, stream_closed, called >>
regVars  == << error_count, recovery_strategies, last_error, last_outcome,
               last_invoked, last_result, stats >>
wxVars   == << wx_now, wx_cache, wx_stamp, wx_mock, wx_calls, wx_last,
              wx_pc, wx_req, wx_cached >>
litVars  == << lit_action, lit_brightness, lit_color, lit_dev, lit_sent,
               lit_result, lit_pc, lit_wire, lit_peer, lit_peer_result,
               lit_peer_pc >>
camVars  == << cam_running, cam_thread, cam_vs, cam_start, cam_stop_pc,
               cam_stops, cam_frames >>
loopVars == << det_names, det_writes, det_last, box_lock >>
auxVars  == << cmdVars, regVars, wxVars, litVars, camVars, loopVars >>
vars == << detVars, boxVars, orchVars, sessVars, histVars, voteVars, auxVars >>

\* ------------------------------------------------------------ Detector vote
Idxs(n) == [i \in 1..n |-> i]

\* matchedIdxs = [i for (i, b) in enumerate(matches) if b]
MatchedIdxs(matches) == SelectSeq(Idxs(Len(matches)), LAMBDA i : matches[i])

\* counts[name] = counts.get(name, 0) + 1, the dict kept as its items in
\* insertion order.
CountsBump(counts, n) ==
    IF \E j \in 1..Len(counts) : counts[j][1] = n
    THEN [j \in 1..Len(counts) |->
            IF counts[j][1] = n THEN << n, counts[j][2] + 1 >> ELSE counts[j]]
    ELSE Append(counts, << n, 1 >>)

RECURSIVE TallyVotes(_, _, _)
TallyVotes(names, idxs, counts) ==
    IF idxs = << >> THEN counts
    ELSE TallyVotes(names, Tail(idxs), CountsBump(counts, names[Head(idxs)]))

\* max(counts, key=counts.get) keeps the first item whose count is largest:
\* a later item replaces the best one only when its count is greater.
RECURSIVE MaxScan(_, _)
MaxScan(items, best) ==
    IF items = << >> THEN best[1]
    ELSE MaxScan(Tail(items),
                 IF Head(items)[2] > best[2] THEN Head(items) ELSE best)

RECURSIVE MaxScanLast(_, _)
MaxScanLast(items, best) ==
    IF items = << >> THEN best[1]
    ELSE MaxScanLast(Tail(items),
                     IF Head(items)[2] >= best[2] THEN Head(items) ELSE best)

\* Mutation of MaxKey: ties go to the last key instead of the first.
MaxKeyLast(counts) == MaxScanLast(Tail(counts), Head(counts))

MaxKey(counts) == MaxScan(Tail(counts), Head(counts))

HasMatch(matches) == \E i \in 1..Len(matches) : matches[i]

VoteWinner(names, matches) ==
    MaxKey(TallyVotes(names, MatchedIdxs(matches), << >>))

\* The identity of one face: "Unknown" unless some known embedding matches.
FaceName(names, matches) ==
    IF HasMatch(matches) THEN VoteWinner(names, matches) ELSE "Unknown"

\* Mutation of Emits: the debounce is applied to unmatched faces too.
EmitsUnmatched(names, matches, cur) == cur # FaceName(names, matches)

\* Mutation of Emits: no debounce, every matched face is written.
EmitsAlways(names, matches, cur) == HasMatch(matches)

\* Whether the face makes the Detector write IdentityBox: only inside
\* `if True in matches`, and only `if currentname != name`.
Emits(names, matches, cur) ==
    HasMatch(matches) /\ cur # FaceName(names, matches)

\* ------------------------------------------------------------------- Init
\* facial_req.py:78  `currentname = "unknown"`
InitialName == "unknown"

InitDetector ==
    /\ currentname = InitialName
    /\ det_pc = "vote"
    /\ person = ""
    /\ new_person_found = FALSE

InitOrchestrator ==
    /\ orch_pc = "poll"
    /\ user_name = ""
    /\ li_head = ""

InitUsers ==
    /\ statuses = << >>
    /\ cur_user = ""
    /\ users_running = FALSE
    /\ worker_pc = [w \in Workers |-> "none"]
    /\ lo_head = [w \in Workers |-> ""]

InitHistory ==
    /\ detWrites = 0
    /\ logins = 0
    /\ winners = {}
    /\ lastFace = "none"
    /\ quietAfterLogin = FALSE
    /\ fifo = << >>

InitVoteIdle ==
    /\ vote_names = << >>
    /\ vote_matches = << >>
    /\ vote_result = ""

\* The current command has called no collaborator.
NoCall == [who |-> "none", outcome |-> "none"]

\* No command has been read yet.
InitCommands ==
    /\ called = NoCall
    /\ said = ""
    /\ reads = 0
    /\ last_read = "none"
    /\ stream_closed = FALSE

\* error_handler.py:79-88  the components a recovery strategy is registered for
RegisteredStrategies ==
    { "camera", "voice", "facial_recognition", "smart_lights", "weather",
      "configuration" }

\* Formats a WeatherCache entry can exist for (logic.py:74-80; two of the
\* five are explored)
KnownFormats == { "temp", "wind" }
\* No get_weather call is on record.
NoGet == [caller |-> "none", format |-> "none", kind |-> "none",
          value |-> << >>, error |-> "none"]
\* Threads that call get_weather.
WxCallers == { "a", "b" }
\* No request is in flight.
NoReq == [format |-> "none", mock |-> FALSE, call |-> 0, found |-> "none",
          seen |-> << >>, answer |-> "none"]

\* logic.py:24-28  WeatherService.__init__; mock mode as configured
InitWeather ==
    /\ wx_now = 0
    /\ wx_cache = [f \in KnownFormats |-> << >>]
    /\ wx_stamp = [f \in KnownFormats |-> -1]
    /\ wx_mock \in BOOLEAN
    /\ wx_calls = 0
    /\ wx_last = NoGet
    /\ wx_pc = [c \in WxCallers |-> "idle"]
    /\ wx_req = [c \in WxCallers |-> NoReq]
    /\ wx_cached = [f \in KnownFormats |-> -1]

\* The WeatherService has not been used.
InitWeatherIdle == InitWeather /\ wx_mock = TRUE

\* The kasa invocations control_lights can make.
DeviceCommands == { "switch", "brightness", "hsv" }

\* control_lights has not been called: no call is pending.
InitLightsIdle ==
    /\ lit_action = "none"
    /\ lit_brightness = [given |-> FALSE, value |-> 0]
    /\ lit_color = "None"
    /\ lit_dev = [c \in DeviceCommands |-> "ok"]
    /\ lit_sent = << >>
    /\ lit_result = "true"
    /\ lit_pc = "done"
    /\ lit_wire = << >>
    /\ lit_peer = "none"
    /\ lit_peer_result = "none"
    /\ lit_peer_pc = "done"

\* facial_req.py:25-34  FaceRecognition.__init__
InitCamera ==
    /\ cam_running = FALSE
    /\ cam_thread = "new"
    /\ cam_vs = "none"
    /\ cam_start = "none"
    /\ cam_stop_pc = "idle"
    /\ cam_stops = 0
    /\ cam_frames = 0

\* facial_req.py:30  `self._lock = threading.Lock()`; no frame read so far
InitLoop ==
    /\ det_names = << >>
    /\ det_writes = 0
    /\ det_last = "none"
    /\ box_lock = "free"

\* No handle_error call is on record.
NoError == [component |-> "none", recoverable |-> FALSE, raised_by |-> "none"]
\* No get_error_stats result is on record.
NoStats == [total_errors |-> -1, errors_by_component |-> << >>,
            most_error_prone |-> "none"]

\* error_handler.py:73-77  ErrorHandler.__init__
InitRegistry ==
    /\ error_count = << >>
    /\ recovery_strategies = RegisteredStrategies
    /\ last_error = NoError
    /\ last_outcome = "none"
    /\ last_invoked = "none"
    /\ last_result = "none"
    /\ stats = NoStats

Init ==
    /\ InitDetector
    /\ InitOrchestrator
    /\ InitUsers
    /\ InitHistory
    /\ InitVoteIdle
    /\ InitCommands
    /\ InitRegistry
    /\ InitWeatherIdle
    /\ InitLightsIdle
    /\ InitCamera
    /\ InitLoop

\* --------------------------------------------------------------- Detector
\* facial_req.py:128-157  one face of one frame: compare_faces, the vote
\* and the debounce; a matched face whose name differs from currentname
\* updates currentname and goes on to the write
DetectFace(matches, cap) ==
    LET n == FaceName(KnownNames, matches)
        emit == Emits(KnownNames, matches, currentname)
    IN  /\ det_pc = "vote"
        /\ emit => detWrites < cap
        /\ currentname' = IF emit THEN n ELSE currentname
        /\ det_pc' = IF emit THEN "store" ELSE "vote"
        /\ winners' = IF HasMatch(matches) THEN winners \cup {n} ELSE winners
        /\ lastFace' = IF emit THEN lastFace
                       ELSE IF HasMatch(matches) THEN "repeated" ELSE "unmatched"
        /\ UNCHANGED << boxVars, orchVars, sessVars, detWrites, logins,
                        quietAfterLogin, fifo, voteVars, auxVars >>

\* facial_req.py:158-160  the worker has the lock: _person and
\* _new_person_found are stored and the lock is released
DetectStore ==
    /\ det_pc = "store"
    /\ person' = currentname
    /\ new_person_found' = TRUE
    /\ det_pc' = "vote"
    /\ detWrites' = detWrites + 1
    /\ lastFace' = "emitted"
    /\ quietAfterLogin' = FALSE
    /\ UNCHANGED << currentname, orchVars, sessVars, logins, winners, fifo,
                    voteVars, auxVars >>

DetectorStep(cap) == \E matches \in MatchVectors : DetectFace(matches, cap)

\* ----------------------------------------------------------- Orchestrator
\* Mutation of ResetNewPersonFound: the flag is left as it was.
ResetSkipped(flag) == flag

\* facial_req.py:70-72  `self._new_person_found = False` under the lock
ResetNewPersonFound(flag) == FALSE

\* driver.py:145  `if self.face_system.new_person_found`
OrchPoll ==
    /\ orch_pc = "poll"
    /\ new_person_found => logins < MaxLogins
    /\ IF new_person_found
       THEN /\ orch_pc' = "get"
            /\ UNCHANGED quietAfterLogin
       ELSE /\ orch_pc' = "poll"
            /\ quietAfterLogin' = FALSE
    /\ UNCHANGED << detVars, boxVars, user_name, li_head, sessVars,
                    detWrites, logins, winners, lastFace, fifo, voteVars, auxVars >>

\* driver.py:162-163  `user_name = self.face_system.get_name`, then the call
\* of self.users.log_in(user_name)
OrchGetName ==
    /\ orch_pc = "get"
    /\ user_name' = person
    /\ orch_pc' = "li_chk"
    /\ logins' = logins + 1
    /\ fifo' = Append(fifo, person)
    /\ UNCHANGED << detVars, boxVars, li_head, sessVars,
                    detWrites, winners, lastFace, quietAfterLogin, voteVars, auxVars >>

\* Mutation of QueueEmpty: every queue is taken for empty.
QueueEmptyAlways(q) == TRUE

\* logic.py:273, 382  the test `not self._statuses`
QueueEmpty(q) == q = << >>

\* logic.py:273  `if not self._statuses`
LogInCheck ==
    /\ orch_pc = "li_chk"
    /\ orch_pc' = IF QueueEmpty(statuses) THEN "li_spawn" ELSE "li_append"
    /\ UNCHANGED << detVars, boxVars, user_name, li_head, sessVars, histVars, voteVars, auxVars >>

FreeWorkers == { w \in Workers : worker_pc[w] = "none" }

\* logic.py:274-276  a new Dispatcher thread is created and started
LogInSpawn ==
    /\ orch_pc = "li_spawn"
    /\ FreeWorkers # {}
    /\ LET w == CHOOSE x \in FreeWorkers : \A y \in FreeWorkers : x <= y
       IN  worker_pc' = [worker_pc EXCEPT ![w] = "loop"]
    /\ orch_pc' = "li_run"
    /\ UNCHANGED << detVars, boxVars, user_name, li_head, statuses, cur_user,
                    users_running, lo_head, histVars, voteVars, auxVars >>

\* logic.py:277  `self.running = True`
LogInRun ==
    /\ orch_pc = "li_run"
    /\ users_running' = TRUE
    /\ orch_pc' = "li_append"
    /\ UNCHANGED << detVars, boxVars, user_name, li_head, statuses, cur_user,
                    worker_pc, lo_head, histVars, voteVars, auxVars >>

\* Mutation of AppendUser: a name already logged in is not queued again.
AppendUserDedup(q, n) ==
    IF \E i \in 1..Len(q) : q[i] = n THEN q ELSE Append(q, n)

\* logic.py:279  `self._statuses.append(name)`
AppendUser(q, n) == Append(q, n)

LogInAppend ==
    /\ orch_pc = "li_append"
    /\ statuses' = AppendUser(statuses, user_name)
    /\ orch_pc' = "li_read"
    /\ UNCHANGED << detVars, boxVars, user_name, li_head, cur_user,
                    users_running, worker_pc, lo_head, histVars, voteVars, auxVars >>

\* logic.py:280  the load of `self._statuses[0]`; an IndexError is caught at
\* line 283 and log_in returns.
LogInRead ==
    /\ orch_pc = "li_read"
    /\ IF statuses = << >>
       THEN orch_pc' = "reset" /\ li_head' = ""
       ELSE orch_pc' = "li_write" /\ li_head' = Head(statuses)
    /\ UNCHANGED << detVars, boxVars, user_name, sessVars, histVars, voteVars, auxVars >>

\* logic.py:280  the store into `self.cur_user`
LogInWrite ==
    /\ orch_pc = "li_write"
    /\ cur_user' = li_head
    /\ li_head' = ""
    /\ orch_pc' = "reset"
    /\ UNCHANGED << detVars, boxVars, user_name, statuses, users_running,
                    worker_pc, lo_head, histVars, voteVars, auxVars >>

\* driver.py:164  `self.face_system.reset_new_person_found()`, then the
\* greeting and the sleep of the poll interval
OrchReset ==
    /\ orch_pc = "reset"
    /\ new_person_found' = ResetNewPersonFound(new_person_found)
    /\ user_name' = ""
    /\ orch_pc' = "poll"
    /\ quietAfterLogin' = TRUE
    /\ UNCHANGED << detVars, person, li_head, sessVars,
                    detWrites, logins, winners, lastFace, fifo, voteVars, auxVars >>

\* ------------------------------------------------------------- Dispatcher
\* Mutation of LoopContinues: the loop ignores the stop signal.
LoopIgnoresStop(running) == TRUE

\* logic.py:288  the loop test `while self.running`
LoopContinues(running) == running

\* logic.py:288  one evaluation of the loop test; the thread ends when it fails
WorkerLoop(w) ==
    /\ worker_pc[w] = "loop"
    /\ worker_pc' = [worker_pc EXCEPT ![w] =
                        IF LoopContinues(users_running) THEN "chk" ELSE "dead"]
    /\ UNCHANGED << detVars, boxVars, orchVars, statuses, cur_user,
                    users_running, lo_head, histVars, voteVars, auxVars >>

\* logic.py:290-292  `if not self._statuses: time.sleep(1); continue`
WorkerCheck(w) ==
    /\ worker_pc[w] = "chk"
    /\ worker_pc' = [worker_pc EXCEPT ![w] = IF statuses = << >> THEN "loop" ELSE "input"]
    /\ UNCHANGED << detVars, boxVars, orchVars, statuses, cur_user,
                    users_running, lo_head, histVars, voteVars, auxVars >>

\* logic.py:294-309  a command other than logout: its handler returns and
\* the loop sleeps
WorkerOther(w) ==
    /\ worker_pc[w] = "input"
    /\ worker_pc' = [worker_pc EXCEPT ![w] = "loop"]
    /\ UNCHANGED << detVars, boxVars, orchVars, statuses, cur_user,
                    users_running, lo_head, histVars, voteVars, auxVars >>

\* logic.py:313-315  EOFError at the command prompt: break
WorkerEOF(w) ==
    /\ worker_pc[w] = "input"
    /\ worker_pc' = [worker_pc EXCEPT ![w] = "dead"]
    /\ UNCHANGED << detVars, boxVars, orchVars, statuses, cur_user,
                    users_running, lo_head, histVars, voteVars, auxVars >>

\* logic.py:302-303  the command "logout": _handle_logout_command is called
WorkerLogout(w) ==
    /\ worker_pc[w] = "input"
    /\ worker_pc' = [worker_pc EXCEPT ![w] = "lo_chk"]
    /\ fifo' = IF fifo = << >> THEN fifo ELSE Tail(fifo)
    /\ UNCHANGED << detVars, boxVars, orchVars, statuses, cur_user,
                    users_running, lo_head, detWrites, logins, winners,
                    lastFace, quietAfterLogin, voteVars, auxVars >>

\* logic.py:378  `if self._statuses`
LogoutCheck(w) ==
    /\ worker_pc[w] = "lo_chk"
    /\ worker_pc' = [worker_pc EXCEPT ![w] = IF statuses # << >> THEN "lo_pop" ELSE "loop"]
    /\ UNCHANGED << detVars, boxVars, orchVars, statuses, cur_user,
                    users_running, lo_head, histVars, voteVars, auxVars >>

\* Mutation of PopUser: the most recent login is removed instead of the head.
PopUserLast(q) == SubSeq(q, 1, Len(q) - 1)

\* logic.py:379  `self._statuses.pop(0)`
PopUser(q) == Tail(q)

\* logic.py:379-380  pop(0) and the goodbye; an IndexError is caught at
\* line 389 and the handler returns.
LogoutPop(w) ==
    /\ worker_pc[w] = "lo_pop"
    /\ IF statuses = << >>
       THEN /\ worker_pc' = [worker_pc EXCEPT ![w] = "loop"]
            /\ UNCHANGED statuses
       ELSE /\ worker_pc' = [worker_pc EXCEPT ![w] = "lo_empty"]
            /\ statuses' = PopUser(statuses)
    /\ UNCHANGED << detVars, boxVars, orchVars, cur_user,
                    users_running, lo_head, histVars, voteVars, auxVars >>

\* logic.py:382  `if not self._statuses`
LogoutEmpty(w) ==
    /\ worker_pc[w] = "lo_empty"
    /\ worker_pc' = [worker_pc EXCEPT ![w] =
                        IF QueueEmpty(statuses) THEN "lo_stop" ELSE "lo_read"]
    /\ UNCHANGED << detVars, boxVars, orchVars, statuses, cur_user,
                    users_running, lo_head, histVars, voteVars, auxVars >>

\* logic.py:383-384  `self.running = False; return`
LogoutStop(w) ==
    /\ worker_pc[w] = "lo_stop"
    /\ users_running' = FALSE
    /\ worker_pc' = [worker_pc EXCEPT ![w] = "loop"]
    /\ UNCHANGED << detVars, boxVars, orchVars, statuses, cur_user,
                    lo_head, histVars, voteVars, auxVars >>

\* logic.py:386  the load of `self._statuses[0]`; an IndexError is caught at
\* line 389 and the handler returns.
LogoutRead(w) ==
    /\ worker_pc[w] = "lo_read"
    /\ IF statuses = << >>
       THEN /\ worker_pc' = [worker_pc EXCEPT ![w] = "loop"]
            /\ UNCHANGED lo_head
       ELSE /\ worker_pc' = [worker_pc EXCEPT ![w] = "lo_write"]
            /\ lo_head' = [lo_head EXCEPT ![w] = Head(statuses)]
    /\ UNCHANGED << detVars, boxVars, orchVars, statuses, cur_user,
                    users_running, histVars, voteVars, auxVars >>

\* logic.py:386-387  the store into `self.cur_user`, then the greeting
LogoutWrite(w) ==
    /\ worker_pc[w] = "lo_write"
    /\ cur_user' = lo_head[w]
    /\ lo_head' = [lo_head EXCEPT ![w] = ""]
    /\ worker_pc' = [worker_pc EXCEPT ![w] = "loop"]
    /\ UNCHANGED << detVars, boxVars, orchVars, statuses, users_running,
                    histVars, voteVars, auxVars >>


\* ------------------------------------------------------ Dispatcher commands
\* What a read of CommandInput can return at the command prompt, after
\* lower() and strip(): the six commands, any other line, or stream-closed.
CommandLines == { "lights", "weather", "music", "logout", "help", "status",
                  "other" }
\* What a collaborator call or a handler statement can do: succeed, report
\* failure (the decorated collaborators return None), or raise.
Outcomes == { "ok", "fail", "raise" }

\* logic.py:346, 359, 373  the error messages of the handlers
ErrorSaid == { "lights_error", "weather_error", "music_error" }

\* The Dispatcher is inside _handle_lights_command or _handle_weather_command.
HandlerPcs == { "h_onoff", "h_bright", "h_color", "h_weather" }

\* Mutation of AfterCommand: a failure or an exception ends the thread.
AfterCommandUncaught(outcome) == IF outcome = "ok" THEN "loop" ELSE "dead"

\* logic.py:311, 316-318, 344-346, 357-359, 371-373  whatever a command did,
\* the handler returns or the exception is caught, the loop sleeps and goes
\* back to its test
AfterCommand(outcome) == "loop"

\* logic.py:331-346  what _handle_lights_command prints after control_lights
LightsSaid(status, outcome) ==
    CASE outcome = "raise" -> "lights_error"
      [] outcome = "ok" -> IF status = "on" THEN "lights_on" ELSE "lights_off"
      [] OTHER -> ""

\* logic.py:353-359  what _handle_weather_command prints after get_weather
WeatherSaid(outcome) ==
    CASE outcome = "raise" -> "weather_error"
      [] outcome = "ok" -> "weather_data"
      [] OTHER -> "weather_none"

\* logic.py:364-373  what _handle_music_command prints after play_music
MusicSaid(outcome) ==
    CASE outcome = "raise" -> "music_error"
      [] outcome = "ok" -> "music_started"
      [] OTHER -> "music_failed"

\* logic.py:392-402  what the help and status handlers print; they have no
\* try block, an exception reaches the loop's handler at 316-318
InfoSaid(cmd, outcome) == IF outcome = "raise" THEN "" ELSE cmd

\* One read of CommandInput returning r (a line or "EOF").
ReadInput(r) ==
    /\ reads < MaxReads
    /\ reads' = reads + 1
    /\ last_read' = r
    /\ stream_closed' = (stream_closed \/ r = "EOF")

\* logic.py:294-315  the command prompt and the dispatch on the command
CmdRead(w) ==
    /\ worker_pc[w] = "input"
    /\ \E r \in CommandLines \cup { "EOF" }, o \in Outcomes :
        /\ ReadInput(r)
        /\ called' = IF r = "music" THEN [who |-> "music", outcome |-> o] ELSE NoCall
        /\ IF r = "EOF"
           THEN worker_pc' = [worker_pc EXCEPT ![w] = "dead"] /\ said' = ""
           ELSE IF r = "lights"
           THEN worker_pc' = [worker_pc EXCEPT ![w] = "h_onoff"] /\ said' = ""
           ELSE IF r = "weather"
           THEN worker_pc' = [worker_pc EXCEPT ![w] = "h_weather"] /\ said' = ""
           ELSE IF r = "logout"
           THEN worker_pc' = [worker_pc EXCEPT ![w] = "lo_chk"] /\ said' = ""
           ELSE IF r = "music"
           THEN /\ worker_pc' = [worker_pc EXCEPT ![w] = AfterCommand(o)]
                /\ said' = MusicSaid(o)
           ELSE IF r \in { "help", "status" }
           THEN /\ o # "fail"
                /\ worker_pc' = [worker_pc EXCEPT ![w] = AfterCommand(o)]
                /\ said' = InfoSaid(r, o)
           ELSE /\ worker_pc' = [worker_pc EXCEPT ![w] = AfterCommand("ok")]
                /\ said' = "not_recognized"
        /\ fifo' = IF r = "logout" /\ fifo # << >> THEN Tail(fifo) ELSE fifo
    /\ UNCHANGED << detVars, boxVars, orchVars, statuses, cur_user,
                    users_running, lo_head, detWrites, logins, winners,
                    lastFace, quietAfterLogin, voteVars, regVars, wxVars, litVars, camVars, loopVars >>

\* logic.py:323-346  the on/off prompt; "off" calls control_lights
LightsOnOff(w) ==
    /\ worker_pc[w] = "h_onoff"
    /\ \E r \in { "on", "off", "other", "EOF" }, o \in Outcomes :
        /\ ReadInput(r)
        /\ called' = IF r = "off" THEN [who |-> "lights", outcome |-> o] ELSE NoCall
        /\ IF r = "EOF"
           THEN /\ worker_pc' = [worker_pc EXCEPT ![w] = AfterCommand("raise")]
                /\ said' = "lights_error"
           ELSE IF r = "on"
           THEN worker_pc' = [worker_pc EXCEPT ![w] = "h_bright"] /\ said' = ""
           ELSE IF r = "off"
           THEN /\ worker_pc' = [worker_pc EXCEPT ![w] = AfterCommand(o)]
                /\ said' = LightsSaid("off", o)
           ELSE /\ worker_pc' = [worker_pc EXCEPT ![w] = AfterCommand("ok")]
                /\ said' = "invalid_option"
    /\ UNCHANGED << detVars, boxVars, orchVars, statuses, cur_user,
                    users_running, lo_head, histVars, voteVars, regVars, wxVars, litVars, camVars, loopVars >>

\* logic.py:326-327, 344-346  the brightness prompt; for a line of digit
\* characters that int() does not accept (such as a superscript two)
\* isdigit() is true and int() raises ValueError, which the handler catches
\* like the EOFError of a closed stream
LightsBrightness(w) ==
    /\ worker_pc[w] = "h_bright"
    /\ \E r \in { "line", "EOF" }, int_raises \in BOOLEAN :
        /\ r = "EOF" => ~int_raises
        /\ ReadInput(r)
        /\ called' = NoCall
        /\ IF r = "EOF" \/ int_raises
           THEN /\ worker_pc' = [worker_pc EXCEPT ![w] = AfterCommand("raise")]
                /\ said' = "lights_error"
           ELSE worker_pc' = [worker_pc EXCEPT ![w] = "h_color"] /\ said' = ""
    /\ UNCHANGED << detVars, boxVars, orchVars, statuses, cur_user,
                    users_running, lo_head, histVars, voteVars, regVars, wxVars, litVars, camVars, loopVars >>

\* logic.py:329-334  the color prompt, then control_lights("on", ...)
LightsColor(w) ==
    /\ worker_pc[w] = "h_color"
    /\ \E r \in { "line", "EOF" }, o \in Outcomes :
        /\ ReadInput(r)
        /\ called' = IF r # "EOF" THEN [who |-> "lights", outcome |-> o] ELSE NoCall
        /\ IF r = "EOF"
           THEN /\ worker_pc' = [worker_pc EXCEPT ![w] = AfterCommand("raise")]
                /\ said' = "lights_error"
           ELSE /\ worker_pc' = [worker_pc EXCEPT ![w] = AfterCommand(o)]
                /\ said' = LightsSaid("on", o)
    /\ UNCHANGED << detVars, boxVars, orchVars, statuses, cur_user,
                    users_running, lo_head, histVars, voteVars, regVars, wxVars, litVars, camVars, loopVars >>

\* logic.py:351-359  the weather prompt, then get_weather(choice)
WeatherChoice(w) ==
    /\ worker_pc[w] = "h_weather"
    /\ \E r \in { "line", "EOF" }, o \in Outcomes :
        /\ ReadInput(r)
        /\ called' = IF r # "EOF" THEN [who |-> "weather", outcome |-> o] ELSE NoCall
        /\ IF r = "EOF"
           THEN /\ worker_pc' = [worker_pc EXCEPT ![w] = AfterCommand("raise")]
                /\ said' = "weather_error"
           ELSE /\ worker_pc' = [worker_pc EXCEPT ![w] = AfterCommand(o)]
                /\ said' = WeatherSaid(o)
    /\ UNCHANGED << detVars, boxVars, orchVars, statuses, cur_user,
                    users_running, lo_head, histVars, voteVars, regVars, wxVars, litVars, camVars, loopVars >>


\* ------------------------------------------------------------ ErrorRegistry
\* Components explored: one with a strategy and recoverable errors, the one
\* whose error class is not recoverable, and one without a strategy.
ErrComponents == { "camera", "configuration", "music" }

\* error_handler.py:25-31  a SmartHomeError as a caller can build it: any
\* component, recoverable or not (CameraError is camera/TRUE, lines 34-37;
\* ConfigurationError is configuration/FALSE, lines 64-67)
Errors ==
    [component : ErrComponents, recoverable : BOOLEAN, raised_by : { "caller" }]

\* driver.py:32-33  the error raised when validate_config() fails: the base
\* class with component "configuration"; recoverable keeps its default
\* (error_handler.py:26)
DriverConfigError ==
    [component |-> "configuration", recoverable |-> TRUE, raised_by |-> "driver"]

\* What a recovery strategy does when it is called.
StrategyOutcomes == { "true", "false", "raise" }

\* The count recorded for component c, 0 when it has no entry.
CountOf(ec, c) ==
    IF \E i \in 1..Len(ec) : ec[i][1] = c
    THEN LET i == CHOOSE j \in 1..Len(ec) : ec[j][1] = c IN ec[i][2]
    ELSE 0

\* error_handler.py:218  sum(self.error_count.values())
RECURSIVE SumCounts(_)
SumCounts(ec) == IF ec = << >> THEN 0 ELSE Head(ec)[2] + SumCounts(Tail(ec))

\* Mutation of UpdateErrorCount: the counter is set to one.
UpdateErrorCountSetsOne(ec, c) ==
    IF \E i \in 1..Len(ec) : ec[i][1] = c
    THEN [i \in 1..Len(ec) |-> IF ec[i][1] = c THEN << c, 1 >> ELSE ec[i]]
    ELSE Append(ec, << c, 1 >>)

\* error_handler.py:136-138  error_count[c] = error_count.get(c, 0) + 1
UpdateErrorCount(ec, c) ==
    IF \E i \in 1..Len(ec) : ec[i][1] = c
    THEN [i \in 1..Len(ec) |->
            IF ec[i][1] = c THEN << c, ec[i][2] + 1 >> ELSE ec[i]]
    ELSE Append(ec, << c, 1 >>)

\* Mutation of Recovers: recovery is attempted for every error.
RecoversAlways(e) == TRUE

\* error_handler.py:108  `if error.recoverable`
Recovers(e) == e.recoverable

\* Mutation of StrategyResult: recovery is reported as successful.
StrategyResultTrue(o) == "true"

\* error_handler.py:146-152  `return recovery_func(error)`; an exception of
\* the strategy is caught and False returned
StrategyResult(o) == IF o = "true" THEN "true" ELSE "false"

\* error_handler.py:90-117, 140-152  handle_error(e), the strategy doing o
\* if it is called
Handle(e, o) ==
    /\ SumCounts(error_count) < MaxErrors
    /\ error_count' = UpdateErrorCount(error_count, e.component)
    /\ last_error' = e
    /\ IF Recovers(e) /\ e.component \in recovery_strategies
       THEN /\ last_invoked' = e.component
            /\ last_outcome' = o
            /\ last_result' = StrategyResult(o)
       ELSE /\ last_invoked' = "none"
            /\ last_outcome' = "none"
            /\ last_result' = "false"
    /\ stats' = NoStats
    /\ UNCHANGED << detVars, boxVars, orchVars, sessVars, histVars, voteVars,
                    cmdVars, wxVars, litVars, camVars, loopVars, recovery_strategies >>

\* A caller hands an error to the ErrorRegistry.
HandleError == \E e \in Errors, o \in StrategyOutcomes : Handle(e, o)

\* driver.py:32-33, 216-217  validate_config() fails in the constructor and
\* main passes the error to error_handler.handle_error
StartupConfigFailure == \E o \in StrategyOutcomes : Handle(DriverConfigError, o)

\* The components of the errors the collaborators raise: WeatherError
\* (error_handler.py:58-61), SmartLightError (52-55) and
\* SmartHomeError(component="music") (logic.py:236-250).
CollaboratorComponents == { "weather", "smart_lights", "music" }

\* error_handler.py:241-248  the handle_errors wrapper around get_weather,
\* control_lights and play_music catches the collaborator's error, builds a
\* new ErrorHandler(), has that one handle the error and returns None; the
\* new handler is dropped with its count, and the process-wide handler of
\* line 293 is not used.
CollaboratorFailure ==
    /\ \E c \in CollaboratorComponents :
        last_error' = [component |-> c, recoverable |-> TRUE,
                       raised_by |-> "collaborator"]
    /\ error_count' = error_count
    /\ last_outcome' = "none"
    /\ last_invoked' = "none"
    /\ last_result' = "none"
    /\ stats' = NoStats
    /\ UNCHANGED << detVars, boxVars, orchVars, sessVars, histVars, voteVars,
                    cmdVars, wxVars, litVars, camVars, loopVars, recovery_strategies >>

\* Mutation of ResetCounts: a reset of one component clears all of them.
ResetCountsAll(ec, c) == << >>

\* error_handler.py:225-228  `if component: self.error_count[component] = 0
\* else: self.error_count.clear()`; "None" stands for the omitted argument
ResetCounts(ec, c) ==
    IF c = "None" THEN << >>
    ELSE IF \E i \in 1..Len(ec) : ec[i][1] = c
    THEN [i \in 1..Len(ec) |-> IF ec[i][1] = c THEN << c, 0 >> ELSE ec[i]]
    ELSE Append(ec, << c, 0 >>)

\* error_handler.py:223-228  reset_error_count(component)
ResetErrorCount ==
    /\ \E c \in ErrComponents \cup { "None" } :
        /\ error_count' = ResetCounts(error_count, c)
        /\ last_error' = [NoError EXCEPT !.component = c, !.raised_by = "reset"]
    /\ last_outcome' = "none"
    /\ last_invoked' = "none"
    /\ last_result' = "none"
    /\ stats' = NoStats
    /\ UNCHANGED << detVars, boxVars, orchVars, sessVars, histVars, voteVars,
                    cmdVars, wxVars, litVars, camVars, loopVars, recovery_strategies >>

\* error_handler.py:220  max(self.error_count.items(), key=lambda x: x[1])[0]
\* if self.error_count else None
MostErrorProne(ec) ==
    IF ec = << >> THEN "None" ELSE MaxScan(Tail(ec), Head(ec))

\* error_handler.py:215-221  get_error_stats()
ErrorStats(ec) ==
    [total_errors |-> SumCounts(ec), errors_by_component |-> ec,
     most_error_prone |-> MostErrorProne(ec)]

GetErrorStats ==
    /\ stats = NoStats
    /\ stats' = ErrorStats(error_count)
    /\ last_error' = NoError
    /\ last_outcome' = "none"
    /\ last_invoked' = "none"
    /\ last_result' = "none"
    /\ UNCHANGED << detVars, boxVars, orchVars, sessVars, histVars, voteVars,
                    cmdVars, wxVars, litVars, camVars, loopVars, error_count, recovery_strategies >>


\* ------------------------------------------------------------- WeatherCache
\* Formats asked for: the known ones and one that is not in the mapping.
WxFormats == KnownFormats \cup { "bogus" }
\* What the backend does when it is called: answers 200, answers another
\* status, or the request fails (requests.exceptions.RequestException).
BackendOutcomes == { "ok", "status", "network" }

\* logic.py:119-124  _is_cache_valid: both dicts have the key and
\* time.time() - last_cache_time[key] < cache_duration
CacheValid(cache, stamp, f, now, ttl) ==
    /\ f \in KnownFormats
    /\ cache[f] # << >>
    /\ stamp[f] # -1
    /\ (now - stamp[f]) < ttl

\* logic.py:59-68  _get_mock_weather: a fixed value per known format, the
\* default text otherwise
MockWeather(f) ==
    IF f \in KnownFormats THEN << "mock", f >> ELSE << "mock", "not available" >>

\* logic.py:99  the value parsed from the n-th backend answer
BackendValue(n) == << "real", n >>

\* Mutation of AnswerStored: the answer is cached whatever the backend did.
AnswerStoredAlways(b) == TRUE

\* logic.py:97-103  `if response.status_code == 200`: only a 200 answer is
\* parsed and cached
AnswerStored(b) == b = "ok"

\* logic.py:31-43  caller c enters get_weather(f) and reads the weather
\* settings, the mock flag among them, into a dict of its own
GetWeatherSettings(c) ==
    /\ wx_pc[c] = "idle"
    /\ \E f \in WxFormats :
        wx_req' = [wx_req EXCEPT ![c] =
                        [NoReq EXCEPT !.format = f, !.mock = wx_mock]]
    /\ wx_pc' = [wx_pc EXCEPT ![c] = "check"]
    /\ wx_last' = NoGet
    /\ UNCHANGED << wx_now, wx_cache, wx_stamp, wx_mock, wx_calls, wx_cached >>

\* logic.py:45-46, 50-57, 70-93  the cache check of the call at time
\* wx_now, no lock held: a valid entry sends the call on to the read of
\* the cache; otherwise the mock flag as read returns the mock value, an
\* unknown format raises, and a known one starts requests.get
GetWeatherCheck(c) ==
    /\ wx_pc[c] = "check"
    /\ LET f == wx_req[c].format
       IN  IF CacheValid(wx_cache, wx_stamp, f, wx_now, WxTTL)
           THEN /\ wx_pc' = [wx_pc EXCEPT ![c] = "hit"]
                /\ wx_req' = [wx_req EXCEPT ![c].found = "valid",
                                            ![c].seen = wx_cache[f]]
                /\ wx_last' = NoGet
                /\ UNCHANGED wx_calls
           ELSE IF wx_req[c].mock
           THEN /\ wx_last' = [caller |-> c, format |-> f, kind |-> "mock",
                               value |-> MockWeather(f), error |-> "none"]
                /\ wx_pc' = [wx_pc EXCEPT ![c] = "idle"]
                /\ wx_req' = [wx_req EXCEPT ![c] = NoReq]
                /\ UNCHANGED wx_calls
           ELSE IF f \notin KnownFormats
           THEN /\ wx_last' = [caller |-> c, format |-> f, kind |-> "error",
                               value |-> << >>, error |-> "weather"]
                /\ wx_pc' = [wx_pc EXCEPT ![c] = "idle"]
                /\ wx_req' = [wx_req EXCEPT ![c] = NoReq]
                /\ UNCHANGED wx_calls
           ELSE /\ wx_calls < MaxBackend
                /\ wx_calls' = wx_calls + 1
                /\ wx_pc' = [wx_pc EXCEPT ![c] = "request"]
                /\ wx_req' = [wx_req EXCEPT
                        ![c].call = wx_calls + 1,
                        ![c].found = IF wx_cache[f] = << >> THEN "absent"
                                     ELSE "expired"]
                /\ wx_last' = NoGet
    /\ UNCHANGED << wx_now, wx_cache, wx_stamp, wx_mock, wx_cached >>

\* logic.py:47  `return self.cache[cache_key]`, a statement of its own
\* after the check: the call returns what the cache holds now
GetWeatherHit(c) ==
    /\ wx_pc[c] = "hit"
    /\ wx_last' = [caller |-> c, format |-> wx_req[c].format, kind |-> "hit",
                   value |-> wx_cache[wx_req[c].format], error |-> "none"]
    /\ wx_pc' = [wx_pc EXCEPT ![c] = "idle"]
    /\ wx_req' = [wx_req EXCEPT ![c] = NoReq]
    /\ UNCHANGED << wx_now, wx_cache, wx_stamp, wx_mock, wx_calls, wx_cached >>

\* logic.py:30-57, 70-93  the steps of get_weather(f) by caller c up to
\* its return or to its requests.get
GetWeather(c) ==
    \/ GetWeatherSettings(c)
    \/ GetWeatherCheck(c)
    \/ GetWeatherHit(c)

\* logic.py:93-106  the requests.get of caller c returns or raises: a 200
\* answer is parsed and goes on to _cache_weather_data, anything else
\* raises WeatherError
GetWeatherAnswer(c) ==
    /\ wx_pc[c] = "request"
    /\ \E b \in BackendOutcomes :
        /\ wx_req' = [wx_req EXCEPT ![c] =
                        IF AnswerStored(b)
                        THEN [wx_req[c] EXCEPT !.answer = b] ELSE NoReq]
        /\ wx_pc' = [wx_pc EXCEPT ![c] =
                        IF AnswerStored(b) THEN "cache" ELSE "idle"]
        /\ wx_last' = IF AnswerStored(b) THEN NoGet
                      ELSE [caller |-> c, format |-> wx_req[c].format,
                            kind |-> "error", value |-> << >>,
                            error |-> "weather"]
    /\ UNCHANGED << wx_now, wx_cache, wx_stamp, wx_mock, wx_calls, wx_cached >>

\* logic.py:116  `self.cache[cache_key] = data`, no lock held
CacheValue(c) ==
    /\ wx_pc[c] = "cache"
    /\ wx_cache' = [wx_cache EXCEPT
                        ![wx_req[c].format] = BackendValue(wx_req[c].call)]
    /\ wx_cached' = [wx_cached EXCEPT ![wx_req[c].format] = wx_now]
    /\ wx_pc' = [wx_pc EXCEPT ![c] = "stamp"]
    /\ wx_last' = NoGet
    /\ UNCHANGED << wx_now, wx_stamp, wx_mock, wx_calls, wx_req >>

\* logic.py:117, 100-103  `self.last_cache_time[cache_key] = time.time()`,
\* then the call returns the parsed value (a WeatherError for an answer
\* that was not 200)
CacheStamp(c) ==
    /\ wx_pc[c] = "stamp"
    /\ wx_stamp' = [wx_stamp EXCEPT ![wx_req[c].format] = wx_now]
    /\ wx_last' = IF wx_req[c].answer = "ok"
                  THEN [caller |-> c, format |-> wx_req[c].format,
                        kind |-> "real",
                        value |-> BackendValue(wx_req[c].call),
                        error |-> "none"]
                  ELSE [caller |-> c, format |-> wx_req[c].format,
                        kind |-> "error", value |-> << >>,
                        error |-> "weather"]
    /\ wx_pc' = [wx_pc EXCEPT ![c] = "idle"]
    /\ wx_req' = [wx_req EXCEPT ![c] = NoReq]
    /\ UNCHANGED << wx_now, wx_cache, wx_mock, wx_calls, wx_cached >>

\* logic.py:30-57  a step of a get_weather call before its request;
\* nothing outside the WeatherService changes
WeatherGet ==
    /\ \E c \in WxCallers : GetWeather(c)
    /\ UNCHANGED << detVars, boxVars, orchVars, sessVars, histVars, voteVars,
                    cmdVars, regVars, litVars, camVars, loopVars >>

\* logic.py:93-106  a backend request of a get_weather call ends; nothing
\* outside the WeatherService changes
WeatherAnswer ==
    /\ \E c \in WxCallers : GetWeatherAnswer(c)
    /\ UNCHANGED << detVars, boxVars, orchVars, sessVars, histVars, voteVars,
                    cmdVars, regVars, litVars, camVars, loopVars >>

\* logic.py:113-117  a store of _cache_weather_data; nothing outside the
\* WeatherService changes
WeatherStore ==
    /\ \E c \in WxCallers : CacheValue(c) \/ CacheStamp(c)
    /\ UNCHANGED << detVars, boxVars, orchVars, sessVars, histVars, voteVars,
                    cmdVars, regVars, litVars, camVars, loopVars >>

\* logic.py:124  time.time() advances between calls
WeatherTick ==
    /\ wx_now < MaxTime
    /\ wx_now' = wx_now + 1
    /\ wx_last' = NoGet
    /\ UNCHANGED << detVars, boxVars, orchVars, sessVars, histVars, voteVars,
                    cmdVars, regVars, litVars, camVars, loopVars, wx_cache, wx_stamp, wx_mock, wx_calls,
                    wx_pc, wx_req, wx_cached >>

\* config_manager.py:139-156  config.set('weather.use_mock_data', ...);
\* get_weather reads the setting on every call (logic.py:42)
WeatherSetMock ==
    /\ wx_mock' = ~wx_mock
    /\ wx_last' = NoGet
    /\ UNCHANGED << detVars, boxVars, orchVars, sessVars, histVars, voteVars,
                    cmdVars, regVars, litVars, camVars, loopVars, wx_now, wx_cache, wx_stamp, wx_calls,
                    wx_pc, wx_req, wx_cached >>


\* ---------------------------------------------------------- LightController
\* Arguments explored: the two actions and one that is neither; brightness
\* absent or any integer of the range; color absent, empty, a table key in
\* lower, upper and mixed case, and a name that is not in the table.
LightActions == { "on", "off", "dim" }
BrightnessInputs ==
    { [given |-> FALSE, value |-> 0] }
        \cup [given : { TRUE }, value : (0 - MaxBelow)..MaxBrightness]
ColorInputs == { "None", "", "red", "RED", "White", "teal" }
\* What a kasa invocation does: exits 0, exits non-zero, or runs into the
\* timeout of subprocess.run.
DeviceOutcomes == { "ok", "nonzero", "timeout" }

\* config_manager.py:64-69  the configured name -> HSV table
ColorTable ==
    [n \in { "red", "green", "blue", "white" } |->
        CASE n = "red" -> << 0, 100, 80 >>
          [] n = "green" -> << 123, 86, 80 >>
          [] n = "blue" -> << 245, 84, 70 >>
          [] OTHER -> << 0, 0, 100 >>]

\* Mutation of Lower: the name is looked up as it was typed.
LowerNot(c) == c

\* logic.py:209  color_name.lower(), on the names explored
Lower(c) ==
    CASE c = "RED" -> "red"
      [] c = "White" -> "white"
      [] OTHER -> c

\* logic.py:206-209  _get_color_values: the table's triple, << >> for None
ColorValues(c) ==
    IF Lower(c) \in DOMAIN ColorTable THEN ColorTable[Lower(c)] ELSE << >>

\* Mutation of Clamp: the value is passed on as it came.
ClampNot(b) == b

\* logic.py:171  max(0, min(100, brightness))
Clamp(b) ==
    LET m == IF b < 100 THEN b ELSE 100
    IN  IF m > 0 THEN m ELSE 0

\* logic.py:174-175, 183-184  a non-zero exit of the brightness or the color
\* command is logged as a warning and the call goes on; a timeout raises
\* (188-189)
WarnOnly(outcome) == outcome = "nonzero"

\* Everything outside the LightController.
notLit == << detVars, boxVars, orchVars, sessVars, histVars, voteVars,
             cmdVars, regVars, wxVars, camVars, loopVars >>

\* What the pending call leaves alone in every step.
LitArgs == << notLit, lit_action, lit_brightness, lit_color, lit_dev,
              lit_peer, lit_peer_result, lit_peer_pc >>

\* logic.py:135-158, 165, 196  control_lights(lit_action, ...) up to the
\* start of its first kasa invocation: an action that is neither on nor
\* off raises at once, and the exception leaves as a SmartLightError, which
\* the wrapper turns into the return value None; otherwise subprocess.run
\* starts `kasa on` or `kasa off` and blocks
SwitchSend ==
    /\ lit_result = "pending"
    /\ lit_pc = "switch"
    /\ IF lit_action \notin { "on", "off" }
       THEN /\ lit_result' = "error"
            /\ lit_pc' = "done"
            /\ UNCHANGED << lit_sent, lit_wire >>
       ELSE /\ lit_sent' = Append(lit_sent, << "switch", lit_action >>)
            /\ lit_wire' = Append(lit_wire, << "switch", lit_action >>)
            /\ lit_pc' = "switch_wait"
            /\ UNCHANGED lit_result
    /\ UNCHANGED LitArgs

\* logic.py:165-167, 188-191, 196-204  subprocess.run returns or times
\* out: a non-zero exit or a timeout of the switch command raises; `off`
\* returns True, `on` goes on to the brightness
SwitchReturn ==
    /\ lit_result = "pending"
    /\ lit_pc = "switch_wait"
    /\ lit_result' = IF lit_dev["switch"] # "ok" THEN "error"
                     ELSE IF lit_action = "off" THEN "true"
                     ELSE "pending"
    /\ lit_pc' = IF lit_dev["switch"] = "ok" /\ lit_action = "on"
                 THEN "brightness" ELSE "done"
    /\ UNCHANGED << LitArgs, lit_sent, lit_wire >>

\* logic.py:160-167, 193-204  the first kasa invocation of the call
LightsSwitch ==
    \/ SwitchSend
    \/ SwitchReturn

\* logic.py:169-172  a given brightness is clamped and its kasa invocation
\* started; without one the call goes on to the color
BrightnessSend ==
    /\ lit_result = "pending"
    /\ lit_pc = "brightness"
    /\ IF lit_brightness.given
       THEN LET inv == << "brightness", Clamp(lit_brightness.value) >>
            IN  /\ lit_sent' = Append(lit_sent, inv)
                /\ lit_wire' = Append(lit_wire, inv)
                /\ lit_pc' = "brightness_wait"
       ELSE /\ lit_pc' = "hsv"
            /\ UNCHANGED << lit_sent, lit_wire >>
    /\ UNCHANGED << LitArgs, lit_result >>

\* logic.py:172-175, 188-189  the brightness invocation returns (a non-zero
\* exit is a warning) or times out (the call raises)
BrightnessReturn ==
    /\ lit_result = "pending"
    /\ lit_pc = "brightness_wait"
    /\ IF lit_dev["brightness"] = "ok" \/ WarnOnly(lit_dev["brightness"])
       THEN lit_pc' = "hsv" /\ UNCHANGED lit_result
       ELSE lit_pc' = "done" /\ lit_result' = "error"
    /\ UNCHANGED << LitArgs, lit_sent, lit_wire >>

\* logic.py:169-175  the brightness part of _turn_on_lights
LightsSetBrightness ==
    \/ BrightnessSend
    \/ BrightnessReturn

\* logic.py:177-181, 186  a color that resolves to a triple has its kasa
\* invocation started; without one the call returns True
ColorSend ==
    /\ lit_result = "pending"
    /\ lit_pc = "hsv"
    /\ IF lit_color # "None" /\ ColorValues(lit_color) # << >>
       THEN LET inv == << "hsv", ColorValues(lit_color) >>
            IN  /\ lit_sent' = Append(lit_sent, inv)
                /\ lit_wire' = Append(lit_wire, inv)
                /\ lit_pc' = "hsv_wait"
                /\ UNCHANGED lit_result
       ELSE /\ lit_result' = "true"
            /\ lit_pc' = "done"
            /\ UNCHANGED << lit_sent, lit_wire >>
    /\ UNCHANGED LitArgs

\* logic.py:181-186, 188-189  the color invocation returns (a non-zero exit
\* is a warning) and the call returns True, or it times out and the call
\* raises
ColorReturn ==
    /\ lit_result = "pending"
    /\ lit_pc = "hsv_wait"
    /\ lit_result' = IF lit_dev["hsv"] = "ok" \/ WarnOnly(lit_dev["hsv"])
                     THEN "true" ELSE "error"
    /\ lit_pc' = "done"
    /\ UNCHANGED << LitArgs, lit_sent, lit_wire >>

\* logic.py:177-186  the color part of _turn_on_lights
LightsSetColor ==
    \/ ColorSend
    \/ ColorReturn

\* logic.py:135-204  the steps of the pending call control_lights(lit_action,
\* brightness=lit_brightness, color=lit_color)
ControlLights ==
    \/ LightsSwitch
    \/ LightsSetBrightness
    \/ LightsSetColor

\* logic.py:135-158, 165, 196  a second thread's call
\* control_lights(lit_peer) starts its one kasa invocation; the
\* LightController has no lock, so the call runs whenever it is made
PeerSend ==
    /\ lit_peer \in { "on", "off" }
    /\ lit_peer_pc = "switch"
    /\ lit_wire' = Append(lit_wire, << "switch", lit_peer >>)
    /\ lit_peer_pc' = "switch_wait"
    /\ UNCHANGED << notLit, lit_action, lit_brightness, lit_color, lit_dev,
                    lit_sent, lit_result, lit_pc, lit_peer, lit_peer_result >>

\* logic.py:165-167, 186-191, 196-204  the second thread's invocation
\* returns or times out, and so does its call
PeerReturn ==
    /\ lit_peer_pc = "switch_wait"
    /\ lit_peer_result' = IF lit_dev["switch"] = "ok" THEN "true" ELSE "error"
    /\ lit_peer_pc' = "done"
    /\ UNCHANGED << notLit, lit_action, lit_brightness, lit_color, lit_dev,
                    lit_sent, lit_result, lit_pc, lit_wire, lit_peer >>

\* logic.py:135-204  the steps of the second thread's call
PeerLights ==
    \/ PeerSend
    \/ PeerReturn


\* ------------------------------------------------------- Detector lifecycle
\* Everything outside the Detector's lifecycle fields.
notCam == << detVars, boxVars, orchVars, sessVars, histVars, voteVars,
             cmdVars, regVars, wxVars, litVars, loopVars >>

\* facial_req.py:36-43  start(): the flag is set and the thread started;
\* start() returns as soon as the thread runs. The driver calls it once,
\* during setup (driver.py:126-127), before any cleanup.
CamStart ==
    /\ cam_start = "none"
    /\ cam_stops = 0
    /\ cam_stop_pc = "idle"
    /\ cam_running' = TRUE
    /\ cam_thread' = "init"
    /\ cam_start' = "ok"
    /\ UNCHANGED << notCam, cam_vs, cam_stop_pc, cam_stops, cam_frames >>

\* What a part of the initialization in run() does: it goes through or it
\* raises.
InitOutcomes == { "ok", "fail" }

\* facial_req.py:76-101, 103-104, 190-192  the first part of the worker's
\* initialization: the encodings are loaded and the VideoStream is opened
\* and assigned to self.vs; a failure of either goes to the outer handler
\* and the finally block, inside the thread, with self.vs still unset
CamOpen ==
    /\ cam_thread = "init"
    /\ \E o \in InitOutcomes :
        /\ cam_vs' = IF o = "fail" THEN cam_vs ELSE "open"
        /\ cam_thread' = IF o = "ok" THEN "warm" ELSE "finally"
    /\ UNCHANGED << notCam, cam_running, cam_start, cam_stop_pc, cam_stops,
                    cam_frames >>

\* facial_req.py:102-107  the rest of the initialization, with the stream
\* open: the two seconds of warm-up and the start of the FPS counter; a
\* failure goes to the outer handler and the finally block
CamWarm ==
    /\ cam_thread = "warm"
    /\ \E o \in InitOutcomes :
        cam_thread' = IF o = "ok" THEN "loop" ELSE "finally"
    /\ UNCHANGED << notCam, cam_running, cam_vs, cam_start, cam_stop_pc,
                    cam_stops, cam_frames >>

\* Mutation of CamLoopTest: the loop goes on whatever the flag says.
CamLoopTestBlind ==
    /\ cam_thread = "loop"
    /\ cam_thread' = "frame"
    /\ UNCHANGED << notCam, cam_running, cam_vs, cam_start, cam_stop_pc,
                    cam_stops, cam_frames >>

\* facial_req.py:110  `while self.running`
CamLoopTest ==
    /\ cam_thread = "loop"
    /\ cam_thread' = IF cam_running THEN "frame" ELSE "report"
    /\ UNCHANGED << notCam, cam_running, cam_vs, cam_start, cam_stop_pc,
                    cam_stops, cam_frames >>

\* facial_req.py:52-53, 202-203  `if self.vs: self.vs.stop()`
StopStream(vs) == IF vs = "none" THEN vs ELSE "released"

\* No pass of the loop body has been made since the FPS counter was started.
NoPassMade == det_last = "none"

\* facial_req.py:193-198  the finally block after the loop, with the FPS
\* counter started: fps.stop(), then elapsed() and fps() are logged. fps()
\* divides the frame count by elapsed(), the difference of two
\* datetime.now() readings, which can be 0.0 when the loop was left at its
\* first test: the ZeroDivisionError leaves the finally block and ends the
\* thread with the cleanup of l.200-203 not run
CamReport ==
    /\ cam_thread = "report"
    /\ \E o \in { "ok", "raised" } :
        /\ o = "raised" => NoPassMade
        /\ cam_thread' = IF o = "ok" THEN "finally" ELSE "dead"
    /\ UNCHANGED << notCam, cam_running, cam_vs, cam_start, cam_stop_pc,
                    cam_stops, cam_frames >>

\* facial_req.py:200-203  the cleanup of the finally block of run(): the
\* windows are closed and the stream is stopped if there is one; then the
\* thread ends
CamFinally ==
    /\ cam_thread = "finally"
    /\ cam_vs' = StopStream(cam_vs)
    /\ cam_thread' = "dead"
    /\ UNCHANGED << notCam, cam_running, cam_start, cam_stop_pc, cam_stops,
                    cam_frames >>

\* Mutation of StopFlag: the flag is flipped.
StopFlagFlip(r) == ~r

\* facial_req.py:49  `self.running = False`
StopFlag(r) == FALSE

\* facial_req.py:45-49  stop() is called and clears the flag
StopBegin ==
    /\ cam_stop_pc = "idle"
    /\ cam_stops < MaxStops
    /\ cam_running' = StopFlag(cam_running)
    /\ cam_stop_pc' = "join"
    /\ UNCHANGED << notCam, cam_thread, cam_vs, cam_start, cam_stops,
                    cam_frames >>

\* facial_req.py:50-51  `if self.thread.is_alive(): self.thread.join(5)`:
\* stop() goes on when the thread has ended or the five seconds are over
StopJoin ==
    /\ cam_stop_pc = "join"
    /\ cam_stop_pc' = "release"
    /\ UNCHANGED << notCam, cam_running, cam_thread, cam_vs, cam_start,
                    cam_stops, cam_frames >>

\* facial_req.py:52-58  the stream is stopped if there is one, the windows
\* are closed and stop() returns; an exception is logged, not raised
StopRelease ==
    /\ cam_stop_pc = "release"
    /\ cam_vs' = StopStream(cam_vs)
    /\ cam_stops' = cam_stops + 1
    /\ cam_stop_pc' = "idle"
    /\ UNCHANGED << notCam, cam_running, cam_thread, cam_start, cam_frames >>

\* The steps of a stop() call under way.
CamStopping == StopJoin \/ StopRelease

\* ------------------------------------------------------ Detector frame loop
\* Mutation of AfterFrameError: a frame that cannot be processed ends the loop.
AfterFrameErrorFatal(pc) == "finally"

\* facial_req.py:117, 188  `continue`: back to the loop test
AfterFrameError(pc) == "loop"

\* facial_req.py:114-125  the frame is read and its faces are located and
\* encoded: the read gives None (115-117), something raises (186-188), or
\* the frame is there and `names = []`
FrameRead ==
    /\ cam_thread = "frame"
    /\ \E o \in { "null", "raised", "faces" } :
        /\ det_last' = IF o = "faces" THEN "none" ELSE o
        /\ cam_thread' = IF o = "faces" THEN "faces"
                         ELSE AfterFrameError(cam_thread)
    /\ det_names' = << >>
    /\ det_writes' = 0
    /\ UNCHANGED << detVars, boxVars, orchVars, sessVars, histVars, voteVars,
                    cmdVars, regVars, wxVars, litVars, box_lock,
                    cam_running, cam_vs, cam_start, cam_stop_pc, cam_stops,
                    cam_frames >>

\* Mutation of NextName: the local last-emitted identity is never updated.
NextNameStale(cur, n, emit) == cur

\* facial_req.py:155-156  `if currentname != name: currentname = name`
NextName(cur, n, emit) == IF emit THEN n ELSE cur

\* facial_req.py:163  `names.append(name)`
NoteFace(names, n) == Append(names, n)

\* facial_req.py:128-157, 163  the frame has one more face (at most
\* MaxFaces): compare_faces, the vote and the debounce against the local
\* currentname, which is updated before the lock is taken; or the
\* processing of that face raises (186-188)
FaceStep ==
    /\ cam_thread = "faces"
    /\ Len(det_names) < MaxFaces
    /\ \E raised \in BOOLEAN : \E m \in MatchVectors :
        IF raised
        THEN /\ m = [i \in 1..Len(KnownNames) |-> FALSE]
             /\ cam_thread' = AfterFrameError(cam_thread)
             /\ det_last' = "raised"
             /\ UNCHANGED << currentname, det_names >>
        ELSE LET emit == Emits(KnownNames, m, currentname)
             IN  /\ currentname' = NextName(currentname,
                                            FaceName(KnownNames, m), emit)
                 /\ cam_thread' = IF emit THEN "lock" ELSE "faces"
                 /\ det_names' = NoteFace(det_names, FaceName(KnownNames, m))
                 /\ UNCHANGED det_last
    /\ UNCHANGED << det_pc, boxVars, orchVars, sessVars, histVars, voteVars,
                    cmdVars, regVars, wxVars, litVars, det_writes, box_lock,
                    cam_running, cam_vs, cam_start, cam_stop_pc, cam_stops,
                    cam_frames >>

\* Mutation of Acquire: the block is entered without taking the lock.
AcquireNot(holder, who) == holder

\* `with self._lock:`  the lock is taken by the thread that enters the block
Acquire(holder, who) == who

\* the end of a `with self._lock:` block
Release(holder) == "free"

\* facial_req.py:158  the worker waits for the lock and takes it
DetAcquire ==
    /\ cam_thread = "lock"
    /\ box_lock = "free"
    /\ box_lock' = Acquire(box_lock, "detector")
    /\ cam_thread' = "write"
    /\ UNCHANGED << detVars, boxVars, orchVars, sessVars, histVars, voteVars,
                    cmdVars, regVars, wxVars, litVars, det_names, det_writes, det_last,
                    cam_running, cam_vs, cam_start, cam_stop_pc, cam_stops,
                    cam_frames >>

\* facial_req.py:159-160  both fields are stored and the block is left
DetWrite ==
    /\ cam_thread = "write"
    /\ person' = currentname
    /\ new_person_found' = TRUE
    /\ box_lock' = Release(box_lock)
    /\ det_writes' = det_writes + 1
    /\ cam_thread' = "faces"
    /\ UNCHANGED << detVars, orchVars, sessVars, histVars, voteVars,
                    cmdVars, regVars, wxVars, litVars, det_names, det_last,
                    cam_running, cam_vs, cam_start, cam_stop_pc, cam_stops,
                    cam_frames >>

\* facial_req.py:166-184  the frame has no more faces: the frame is drawn and shown
\* and the key is read; the quit key clears the flag and breaks (179-181),
\* otherwise the FPS counter is updated; or something raises (186-188)
FrameShow ==
    /\ cam_thread = "faces"
    /\ \E o \in { "shown", "quit", "raised" } :
        /\ det_last' = o
        /\ cam_running' = IF o = "quit" THEN FALSE ELSE cam_running
        /\ cam_thread' = IF o = "quit" THEN "report"
                         ELSE IF o = "raised" THEN AfterFrameError(cam_thread)
                         ELSE "loop"
        /\ cam_frames' = IF o = "shown" /\ cam_frames < MaxFrames
                         THEN cam_frames + 1 ELSE cam_frames
    /\ UNCHANGED << detVars, boxVars, orchVars, sessVars, histVars, voteVars,
                    cmdVars, regVars, wxVars, litVars, det_names, det_writes, box_lock,
                    cam_vs, cam_start, cam_stop_pc, cam_stops >>

\* The three accessors the main thread uses on the Detector, in the order
\* of driver.py:145, 162, 164.
BoxAccessors == { "poll", "get", "reset" }

\* facial_req.py:62, 67, 71  the main thread enters an accessor's
\* `with self._lock:`; it polls only between setup and cleanup
BoxAcquire ==
    /\ orch_pc \in BoxAccessors
    /\ cam_start = "ok"
    /\ cam_stops = 0 /\ cam_stop_pc = "idle"
    /\ box_lock = "free"
    /\ box_lock' = Acquire(box_lock, "orchestrator")
    /\ orch_pc' = IF orch_pc = "poll" THEN "poll_in"
                  ELSE IF orch_pc = "get" THEN "get_in" ELSE "reset_in"
    /\ UNCHANGED << detVars, boxVars, user_name, li_head, sessVars, histVars,
                    voteVars, cmdVars, regVars, wxVars, litVars, camVars,
                    det_names, det_writes, det_last >>

\* facial_req.py:63, driver.py:145-147  new_person_found is read; the
\* handler is called when it is set, otherwise the poll interval is slept
BoxPoll ==
    /\ orch_pc = "poll_in"
    /\ orch_pc' = IF new_person_found THEN "get" ELSE "poll"
    /\ box_lock' = Release(box_lock)
    /\ UNCHANGED << detVars, boxVars, user_name, li_head, sessVars, histVars,
                    voteVars, cmdVars, regVars, wxVars, litVars, camVars,
                    det_names, det_writes, det_last >>

\* facial_req.py:68, driver.py:162-163  get_name is read into user_name,
\* which is then handed to Users.log_in
BoxGetName ==
    /\ orch_pc = "get_in"
    /\ user_name' = person
    /\ orch_pc' = "reset"
    /\ box_lock' = Release(box_lock)
    /\ UNCHANGED << detVars, boxVars, li_head, sessVars, histVars,
                    voteVars, cmdVars, regVars, wxVars, litVars, camVars,
                    det_names, det_writes, det_last >>

\* facial_req.py:72, driver.py:164-167  reset_new_person_found, then the
\* greeting
BoxReset ==
    /\ orch_pc = "reset_in"
    /\ new_person_found' = ResetNewPersonFound(new_person_found)
    /\ user_name' = ""
    /\ orch_pc' = "poll"
    /\ box_lock' = Release(box_lock)
    /\ UNCHANGED << detVars, person, li_head, sessVars, histVars,
                    voteVars, cmdVars, regVars, wxVars, litVars, camVars,
                    det_names, det_writes, det_last >>

\* The steps of the worker thread with the loop body in full.
DetWorker ==
    CamOpen \/ CamWarm \/ CamLoopTest \/ FrameRead \/ FaceStep \/ DetAcquire
        \/ DetWrite \/ FrameShow \/ CamReport \/ CamFinally

\* ---------------------------------------------------------- specifications
LoginPcs == { "li_chk", "li_spawn", "li_run", "li_append", "li_read", "li_write" }
LogoutPcs == { "lo_chk", "lo_pop", "lo_empty", "lo_stop", "lo_read", "lo_write" }

\* The main thread is inside Users.log_in.
LoginMid == orch_pc \in LoginPcs
\* Some Dispatcher thread is inside _handle_logout_command.
LogoutMid == \E w \in Workers : worker_pc[w] \in LogoutPcs
Quiescent == ~LoginMid /\ ~LogoutMid

AliveWorkers == { w \in Workers : worker_pc[w] \notin { "none", "dead" } }

\* logic.py:413-415  Users.stop: `self.running = False`
UsersStop ==
    /\ users_running' = FALSE
    /\ UNCHANGED << detVars, boxVars, orchVars, statuses, cur_user, worker_pc,
                    lo_head, histVars, voteVars, auxVars >>

Next ==
    \/ DetectorStep(MaxWrites)
    \/ DetectStore
    \/ OrchPoll
    \/ OrchGetName
    \/ LogInCheck
    \/ LogInSpawn
    \/ LogInRun
    \/ LogInAppend
    \/ LogInRead
    \/ LogInWrite
    \/ OrchReset
    \/ \E w \in Workers :
        \/ WorkerLoop(w)
        \/ WorkerCheck(w)
        \/ WorkerOther(w)
        \/ WorkerEOF(w)
        \/ WorkerLogout(w)
        \/ LogoutCheck(w)
        \/ LogoutPop(w)
        \/ LogoutEmpty(w)
        \/ LogoutStop(w)
        \/ LogoutRead(w)
        \/ LogoutWrite(w)

Spec == Init /\ [][Next]_vars

\* The program with the public Users.stop as well: nothing in src/ calls it
\* (driver.py:181-197 stops only the Detector), a user of the class may, at
\* any time.
ApiNext ==
    \/ Next
    \/ UsersStop

SpecApi == Init /\ [][ApiNext]_vars

\* A started Dispatcher thread is scheduled: its loop test is evaluated
\* whenever the thread stays at it.
SpecFair ==
    Init /\ [][ApiNext]_vars /\ \A w \in Workers : WF_vars(WorkerLoop(w))


\* Sequential use of the SessionManager: log_in is called only while no
\* logout handler is running, a logout command is taken only while no
\* log_in and no other logout handler is running.
SeqNext ==
    \/ DetectorStep(MaxWritesSeq)
    \/ DetectStore
    \/ OrchPoll
    \/ (~LogoutMid /\ OrchGetName)
    \/ LogInCheck
    \/ LogInSpawn
    \/ LogInRun
    \/ LogInAppend
    \/ LogInRead
    \/ LogInWrite
    \/ OrchReset
    \/ \E w \in Workers :
        \/ WorkerLoop(w)
        \/ WorkerCheck(w)
        \/ WorkerOther(w)
        \/ WorkerEOF(w)
        \/ (Quiescent /\ WorkerLogout(w))
        \/ LogoutCheck(w)
        \/ LogoutPop(w)
        \/ LogoutEmpty(w)
        \/ LogoutStop(w)
        \/ LogoutRead(w)
        \/ LogoutWrite(w)

SpecSeq == Init /\ [][SeqNext]_vars

\* The Dispatcher alone: two users have been logged in by the Orchestrator,
\* which then stays in its poll loop; the Dispatcher reads commands.
InitCmd ==
    /\ currentname = KnownNames[2]
    /\ det_pc = "vote"
    /\ person = KnownNames[2]
    /\ new_person_found = FALSE
    /\ orch_pc = "poll"
    /\ user_name = ""
    /\ li_head = ""
    /\ statuses = << KnownNames[1], KnownNames[2] >>
    /\ cur_user = KnownNames[1]
    /\ users_running = TRUE
    /\ worker_pc = [w \in Workers |-> IF w = 1 THEN "loop" ELSE "none"]
    /\ lo_head = [w \in Workers |-> ""]
    /\ detWrites = 2
    /\ logins = 2
    /\ winners = { KnownNames[1], KnownNames[2] }
    /\ lastFace = "emitted"
    /\ quietAfterLogin = TRUE
    /\ fifo = << KnownNames[1], KnownNames[2] >>
    /\ InitVoteIdle
    /\ InitCommands
    /\ InitRegistry
    /\ InitWeatherIdle
    /\ InitLightsIdle
    /\ InitCamera
    /\ InitLoop

CmdNext ==
    \/ UsersStop
    \/ \E w \in Workers :
        \/ WorkerLoop(w)
        \/ WorkerCheck(w)
        \/ CmdRead(w)
        \/ LightsOnOff(w)
        \/ LightsBrightness(w)
        \/ LightsColor(w)
        \/ WeatherChoice(w)
        \/ LogoutCheck(w)
        \/ LogoutPop(w)
        \/ LogoutEmpty(w)
        \/ LogoutStop(w)
        \/ LogoutRead(w)
        \/ LogoutWrite(w)

SpecCmd == InitCmd /\ [][CmdNext]_vars

\* The ErrorRegistry alone: any sequence of handle_error, reset_error_count
\* and get_error_stats calls on the handler as constructed.
ErrNext ==
    \/ HandleError
    \/ StartupConfigFailure
    \/ CollaboratorFailure
    \/ ResetErrorCount
    \/ GetErrorStats

SpecErr == Init /\ [][ErrNext]_vars

\* The WeatherCache alone: get_weather calls as time passes, in either mode.
InitWx ==
    /\ InitDetector
    /\ InitOrchestrator
    /\ InitUsers
    /\ InitHistory
    /\ InitVoteIdle
    /\ InitCommands
    /\ InitRegistry
    /\ InitWeather
    /\ InitLightsIdle
    /\ InitCamera
    /\ InitLoop

WxNext ==
    \/ WeatherGet
    \/ WeatherAnswer
    \/ WeatherStore
    \/ WeatherTick
    \/ WeatherSetMock

SpecWx == InitWx /\ [][WxNext]_vars

\* The LightController alone: a control_lights call on every argument and
\* every behaviour of the device, while a second thread makes a plain on or
\* off call.
InitLight ==
    /\ InitDetector
    /\ InitOrchestrator
    /\ InitUsers
    /\ InitHistory
    /\ InitVoteIdle
    /\ InitCommands
    /\ InitRegistry
    /\ InitWeatherIdle
    /\ lit_action \in LightActions
    /\ lit_brightness \in BrightnessInputs
    /\ lit_color \in ColorInputs
    /\ lit_dev \in [DeviceCommands -> DeviceOutcomes]
    /\ lit_sent = << >>
    /\ lit_result = "pending"
    /\ lit_pc = "switch"
    /\ lit_wire = << >>
    /\ lit_peer \in { "on", "off" }
    /\ lit_peer_result = "pending"
    /\ lit_peer_pc = "switch"
    /\ InitCamera
    /\ InitLoop

LightNext ==
    \/ ControlLights
    \/ PeerLights

SpecLight == InitLight /\ [][LightNext]_vars

\* The Detector with its loop body in full, from start() to the stop()
\* calls of the cleanup. A started thread and a stop() call under way are
\* scheduled.
DetNext ==
    \/ CamStart
    \/ CamOpen
    \/ CamWarm
    \/ CamLoopTest
    \/ FrameRead
    \/ FaceStep
    \/ DetAcquire
    \/ DetWrite
    \/ FrameShow
    \/ CamReport
    \/ CamFinally
    \/ StopBegin
    \/ StopJoin
    \/ StopRelease

SpecDet ==
    Init /\ [][DetNext]_vars /\ WF_vars(DetWorker) /\ WF_vars(CamStopping)

\* The Detector's worker and the main thread's accessors sharing the
\* IdentityBox, while the system runs.
BoxNext ==
    \/ CamStart
    \/ CamOpen
    \/ CamWarm
    \/ CamLoopTest
    \/ FrameRead
    \/ FaceStep
    \/ DetAcquire
    \/ DetWrite
    \/ FrameShow
    \/ CamReport
    \/ CamFinally
    \/ BoxAcquire
    \/ BoxPoll
    \/ BoxGetName
    \/ BoxReset

SpecBox == Init /\ [][BoxNext]_vars

\* The vote alone, on every list of known names and every match list.
InitVote ==
    /\ InitDetector
    /\ InitOrchestrator
    /\ InitUsers
    /\ InitHistory
    /\ InitCommands
    /\ InitRegistry
    /\ InitWeatherIdle
    /\ InitLightsIdle
    /\ InitCamera
    /\ InitLoop
    /\ vote_names \in [1..NKnown -> VoteNames]
    /\ vote_matches \in [1..NKnown -> BOOLEAN]
    /\ vote_result = ""

RunVote ==
    /\ vote_result = ""
    /\ vote_result' = FaceName(vote_names, vote_matches)
    /\ UNCHANGED << detVars, boxVars, orchVars, sessVars, histVars,
                    vote_names, vote_matches, auxVars >>

SpecVote == InitVote /\ [][RunVote]_vars

\* ------------------------------------------------------------------ claims

\* C1: whenever the Orchestrator resets `changed`, the name it passed to
\* login in that tick equals `current_name` at the moment of the reset, so
\* no Detector write is cleared without having been delivered.
C1_ResetDeliversCurrentName ==
    orch_pc = "reset" => user_name = person

\* C2: a transition is never delivered twice: the number of login calls
\* never exceeds the number of Detector writes, and after a tick that called
\* login the Orchestrator does not enter another login until the Detector
\* has written again.
C2_NoDoubleDelivery ==
    /\ logins <= detWrites
    /\ quietAfterLogin => orch_pc = "poll"

\* One write, one login, and then a further poll with no write in between,
\* which found nothing to deliver.
C2_Witness ==
    /\ detWrites = 1
    /\ logins = 1
    /\ orch_pc = "poll"
    /\ ~quietAfterLogin
    /\ ~new_person_found

\* C3: at most one Dispatcher worker is alive in every reachable state.
C3_AtMostOneDispatcher ==
    Cardinality(AliveWorkers) <= 1

\* C4: whenever the queue is non-empty and no login or logout is running,
\* exactly one Dispatcher worker is alive and the running flag is true.
C4_QueuedImpliesLiveDispatcher ==
    (statuses # << >> /\ Quiescent) =>
        (Cardinality(AliveWorkers) = 1 /\ users_running)

\* C5: login and logout never interleave, so no login and logout can end
\* with a non-empty queue and the Dispatcher told to stop.
C5_LoginLogoutSerialized ==
    /\ ~(LoginMid /\ LogoutMid)
    /\ (statuses # << >> /\ Quiescent) => users_running

\* Writes the worker has decided on and not yet stored (facial_req.py:158).
PendingWrites == IF det_pc = "store" THEN 1 ELSE 0

\* C6: while every vote winner is the same person the Detector writes
\* IdentityBox at most once (exactly once if the person differs from the
\* initial local identity, counting the write it is about to store), and at
\* most one login results.
C6_StableIdentityEmitsOnce ==
    /\ Cardinality(winners) <= 1 =>
        (detWrites + PendingWrites <= 1 /\ logins <= 1)
    /\ \A p \in winners :
        (winners = {p} /\ p # InitialName) => detWrites + PendingWrites = 1

\* The same person was recognised again after the first recognition had
\* been written and delivered.
C6_Witness ==
    /\ winners = { "Alice" }
    /\ lastFace = "repeated"
    /\ detWrites = 1
    /\ logins = 1

\* C7: a face that matches no known embedding is named "Unknown" and
\* changes neither IdentityBox nor the Detector's last emitted identity.
C7_UnmatchedFaceNoEvent ==
    [][\A m \in MatchVectors :
        (~HasMatch(m) /\ DetectFace(m, MaxWrites)) =>
            /\ FaceName(KnownNames, m) = "Unknown"
            /\ UNCHANGED << person, new_person_found, currentname, logins >>]_vars

\* The first faces processed matched nobody and nothing was emitted.
C7_Witness ==
    /\ lastFace = "unmatched"
    /\ detWrites = 0
    /\ person = ""
    /\ ~new_person_found
    /\ currentname = InitialName
    /\ logins = 0

\* Matched occurrences of name n, and the index of its first matched one.
MatchedOf(names, matches, n) ==
    { i \in 1..Len(names) : matches[i] /\ names[i] = n }

FirstMatched(names, matches, n) ==
    CHOOSE i \in MatchedOf(names, matches, n) :
        \A j \in MatchedOf(names, matches, n) : i <= j

BeatsAll(names, matches, n) ==
    /\ MatchedOf(names, matches, n) # {}
    /\ \A m \in VoteNames \ {n} :
        LET cn == Cardinality(MatchedOf(names, matches, n))
            cm == Cardinality(MatchedOf(names, matches, m))
        IN  \/ cm < cn
            \/ /\ cm = cn
               /\ FirstMatched(names, matches, n) < FirstMatched(names, matches, m)

\* C8: with at least one match the vote winner is the name with the most
\* matched occurrences and, among the names tied for the most, the one
\* whose first matched index is lowest.
C8_WinnerIsFirstMax ==
    (vote_result # "" /\ HasMatch(vote_matches)) =>
        BeatsAll(vote_names, vote_matches, vote_result)

\* A tie for the highest count, won by a name that is not the last one in
\* the known list.
C8_Witness ==
    /\ vote_result # ""
    /\ HasMatch(vote_matches)
    /\ \E m \in VoteNames \ {vote_result} :
        Cardinality(MatchedOf(vote_names, vote_matches, m))
            = Cardinality(MatchedOf(vote_names, vote_matches, vote_result))
    /\ vote_names[NKnown] # vote_result

\* C9: in a sequential series of logins and logouts the queue is the FIFO
\* sequence of the names logged in and not yet logged out, duplicates
\* included, and the current user is its earliest entry.
C9_QueueIsFifo ==
    Quiescent =>
        /\ statuses = fifo
        /\ statuses # << >> => cur_user = Head(statuses)

\* The same name is queued twice.
C9_Witness ==
    /\ Quiescent
    /\ statuses = << "Alice", "Alice" >>
    /\ cur_user = "Alice"

\* C10: whenever the queue is non-empty and no login or logout is running,
\* the current user is the queue head.
C10_CurrentUserIsHead ==
    (statuses # << >> /\ Quiescent) => cur_user = Head(statuses)


\* C11: a logout that finds the queue empty after its pop sets the stop
\* signal (running = FALSE); a Dispatcher standing at its loop test with the
\* signal set never reads another command and, unless a login sets running
\* again, eventually exits; a Dispatcher thread is only ever started by
\* log_in.
C11_StopThenExit ==
    /\ [][\A w \in Workers :
            /\ (worker_pc[w] = "lo_empty" /\ statuses = << >>
                    /\ worker_pc'[w] # worker_pc[w])
                => worker_pc'[w] = "lo_stop"
            /\ (worker_pc[w] = "lo_stop" /\ worker_pc'[w] # worker_pc[w])
                => (~users_running' /\ worker_pc'[w] = "loop")
            /\ (worker_pc[w] = "loop" /\ ~users_running)
                => worker_pc'[w] \in { "loop", "dead" }
            /\ (worker_pc[w] \in { "none", "dead" }
                    /\ worker_pc'[w] # worker_pc[w])
                => (orch_pc = "li_spawn" /\ worker_pc[w] = "none")]_vars
    /\ \A w \in Workers :
            (worker_pc[w] = "loop" /\ ~users_running)
                ~> (worker_pc[w] = "dead" \/ users_running)

\* The only Dispatcher ever started has logged the last user out and exited.
C11_Witness ==
    \E w \in Workers :
        /\ worker_pc[w] = "dead"
        /\ \A v \in Workers \ {w} : worker_pc[v] = "none"
        /\ statuses = << >>
        /\ ~users_running
        /\ logins >= 1
        /\ fifo = << >>

\* C12: a log_in that finds the queue non-empty goes straight to the append:
\* none of its steps starts a thread or writes the running flag; a logout
\* that finds the queue non-empty after its pop goes on to the new head and
\* none of its remaining steps writes the running flag.
C12_NoBoundaryNoLifetimeChange ==
    [][/\ (orch_pc = "li_chk" /\ statuses # << >> /\ orch_pc' # orch_pc)
            => (orch_pc' = "li_append" /\ worker_pc' = worker_pc
                    /\ users_running' = users_running)
       /\ (orch_pc \in { "li_append", "li_read", "li_write" }
                /\ orch_pc' # orch_pc)
            => (worker_pc' = worker_pc /\ users_running' = users_running)
       /\ \A w \in Workers :
            /\ (worker_pc[w] = "lo_empty" /\ statuses # << >>
                    /\ worker_pc'[w] # worker_pc[w])
                => (worker_pc'[w] = "lo_read"
                        /\ users_running' = users_running)
            /\ (worker_pc[w] \in { "lo_read", "lo_write" }
                    /\ worker_pc'[w] # worker_pc[w])
                => (worker_pc'[w] \in { "lo_write", "loop" }
                        /\ users_running' = users_running)]_vars

\* Two logins and one logout have run with a single Dispatcher, which is
\* still alive and not signalled, and one user is left in the queue.
C12_Witness ==
    /\ logins = 2
    /\ Len(statuses) = 1
    /\ Len(fifo) = 1
    /\ Quiescent
    /\ orch_pc = "poll"
    /\ users_running
    /\ \E w \in Workers :
        /\ worker_pc[w] = "loop"
        /\ \A v \in Workers \ {w} : worker_pc[v] = "none"

\* C13: a Dispatcher thread ends only at its loop test with the stop signal
\* set or on stream-closed at the command prompt, never on what a command
\* did: an unrecognized command prints "not recognized" and returns to the
\* loop, and from inside a handler the thread goes on to the handler's next
\* prompt or back to the loop, whatever the collaborator or the handler did.
C13_CommandOutcomeNeverEndsLoop ==
    [][\A w \in Workers :
        /\ (worker_pc'[w] = "dead" /\ worker_pc[w] # "dead")
            => \/ (worker_pc[w] = "loop" /\ ~users_running)
               \/ (worker_pc[w] = "input" /\ last_read' = "EOF")
        /\ (worker_pc[w] = "input" /\ reads' # reads /\ last_read' = "other")
            => (said' = "not_recognized" /\ worker_pc'[w] = "loop")
        /\ (worker_pc[w] = "input" /\ reads' # reads
                /\ last_read' \in { "music", "help", "status" })
            => worker_pc'[w] = "loop"
        /\ (worker_pc[w] \in HandlerPcs /\ worker_pc'[w] # worker_pc[w])
            => worker_pc'[w] \in HandlerPcs \cup { "loop" }]_vars

\* A collaborator has failed or a handler has hit an exception, its message
\* is out, and the Dispatcher is back at its loop with the flag still set.
C13_Witness ==
    \E w \in Workers :
        /\ worker_pc[w] = "loop"
        /\ users_running
        /\ said \in ErrorSaid \cup { "music_failed", "weather_none" }
        /\ last_read # "EOF"
        /\ reads < MaxReads

\* C14: after a read of CommandInput that returned stream-closed, no
\* Dispatcher is running and no error message has been printed for it.
C14_EofEndsLoopQuietly ==
    last_read = "EOF"
        => (said \notin ErrorSaid
            /\ \A w \in Workers : worker_pc[w] \in { "none", "dead" })

\* A handle_error call is on record.
Handled == last_error.raised_by \in { "caller", "driver" }

\* C15: after handle_error on an error whose recoverable flag is false, no
\* recovery strategy has been invoked and the call has returned False, also
\* for a component that has a strategy registered.
C15_NonRecoverableNeverRecovered ==
    (Handled /\ ~last_error.recoverable)
        => (last_invoked = "none" /\ last_result = "false")

\* A non-recoverable error of 'configuration', which has a strategy.
C15_Witness ==
    /\ Handled
    /\ ~last_error.recoverable
    /\ last_error.component = "configuration"
    /\ last_error.component \in recovery_strategies
    /\ last_result = "false"

\* C16: after the driver's configuration-validation error has been passed
\* to handle_error, no recovery strategy has been invoked and the call has
\* returned False.
C16_StartupConfigNotRecovered ==
    last_error.raised_by = "driver"
        => (last_invoked = "none" /\ last_result = "false")

\* C17: after handle_error on a recoverable error, the call has returned
\* what the strategy of the error's component returned, and False when that
\* strategy raised or the component has no strategy.
C17_ResultIsStrategyResult ==
    (Handled /\ last_error.recoverable)
        => IF last_error.component \in recovery_strategies
           THEN /\ last_invoked = last_error.component
                /\ last_outcome \in StrategyOutcomes
                /\ (last_result = "true") = (last_outcome = "true")
                /\ (last_result = "false") = (last_outcome # "true")
           ELSE last_invoked = "none" /\ last_result = "false"

\* The strategy of a recoverable camera error has reported failure.
C17_Witness ==
    /\ Handled
    /\ last_error.recoverable
    /\ last_invoked = "camera"
    /\ last_outcome = "false"
    /\ last_result = "false"

\* C18: a handle_error call adds one to the count of the error's component
\* and leaves every other count as it was, whatever the recoverable flag;
\* get_error_stats returns the counts as they are and their sum as the total.
C18_CountsExactlyTheComponent ==
    /\ [][last_error'.raised_by \in { "caller", "driver" }
            => \A c \in ErrComponents :
                CountOf(error_count', c) =
                    CountOf(error_count, c)
                        + (IF c = last_error'.component THEN 1 ELSE 0)]_vars
    /\ [](stats # NoStats
            => /\ stats.errors_by_component = error_count
               /\ stats.total_errors =
                    CountOf(error_count, "camera")
                        + CountOf(error_count, "configuration")
                        + CountOf(error_count, "music"))

\* A second, non-recoverable configuration error has been counted next to a
\* camera error.
C18_Witness ==
    /\ Handled
    /\ ~last_error.recoverable
    /\ last_error.component = "configuration"
    /\ CountOf(error_count, "configuration") = 2
    /\ CountOf(error_count, "camera") = 1

\* C19: get_error_stats names a component whose count is the highest, and
\* names none when the total is zero.
C19_MostErrorProneAbsentAtZero ==
    stats # NoStats
        => /\ (stats.total_errors = 0 => stats.most_error_prone = "None")
           /\ (stats.total_errors > 0
                => \A c \in ErrComponents :
                    CountOf(error_count, stats.most_error_prone)
                        >= CountOf(error_count, c))

\* C20: reset_error_count(c) leaves c at zero and every other count as it
\* was; reset_error_count() leaves every count at zero; neither changes the
\* registered strategies.
C20_ResetClearsOnlyItsTarget ==
    [][last_error'.raised_by = "reset"
        => /\ recovery_strategies' = recovery_strategies
           /\ IF last_error'.component = "None"
              THEN \A c \in ErrComponents : CountOf(error_count', c) = 0
              ELSE \A c \in ErrComponents :
                    CountOf(error_count', c) =
                        IF c = last_error'.component THEN 0
                        ELSE CountOf(error_count, c)]_vars

\* The camera count has been reset while music keeps its errors.
C20_Witness ==
    /\ last_error.raised_by = "reset"
    /\ last_error.component = "camera"
    /\ CountOf(error_count, "camera") = 0
    /\ CountOf(error_count, "music") = 2
    /\ CountOf(error_count, "configuration") = 1

\* C21: once a collaborator failure has been caught by the wrapper, the
\* process-wide ErrorRegistry has counted it: the count of the failed
\* component, and with it the total, is at least one.
C21_CollaboratorFailureCounted ==
    last_error.raised_by = "collaborator"
        => /\ CountOf(error_count, last_error.component) >= 1
           /\ SumCounts(error_count) >= 1

\* The step is the cache check of a get_weather(f) call by caller c that
\* read the mock flag as off.
IsGetOf(c, f) ==
    /\ wx_pc[c] = "check"
    /\ wx_req[c].format = f
    /\ ~wx_req[c].mock
    /\ wx_pc'[c] # "check"
\* The step is the return of a get_weather(f) call by caller c that went
\* to the backend.
IsAnswerOf(c, f) ==
    /\ wx_pc[c] \in { "request", "stamp" }
    /\ wx_req[c].format = f
    /\ wx_pc'[c] = "idle"
\* The step is the return of a get_weather(f) call by caller c that was
\* served from the cache.
IsHitOf(c, f) ==
    /\ wx_pc[c] = "hit"
    /\ wx_req[c].format = f
    /\ wx_pc'[c] = "idle"

\* A value of f was cached less than the cache duration ago.
Fresh(f) == wx_cache[f] # << >> /\ wx_now - wx_cached[f] < WxTTL
\* A value of f was cached and stamped the cache duration or more ago.
Expired(f) ==
    /\ wx_cache[f] # << >>
    /\ wx_now - wx_cached[f] >= WxTTL
    /\ wx_stamp[f] # -1
    /\ wx_now - wx_stamp[f] >= WxTTL

\* C22: with mock mode off, a get made less than the cache duration after
\* the value was cached invokes no backend and returns the value that was
\* cached, which is the value the get that cached it returned; a get made
\* when the cached value's age is the cache duration or more invokes the
\* backend, and the value it gets from the backend is cached with the
\* current time as its timestamp.
C22_FreshGetServedFromCache ==
    [][\A c \in WxCallers, f \in KnownFormats :
        /\ (IsGetOf(c, f) /\ Fresh(f))
            => (wx_pc'[c] = "hit" /\ wx_calls' = wx_calls)
        /\ IsHitOf(c, f)
            => (wx_last'.kind = "hit" /\ wx_last'.value = wx_req[c].seen)
        /\ (IsAnswerOf(c, f) /\ wx_last'.kind = "real")
            => (wx_cache'[f] = wx_last'.value /\ wx_stamp'[f] = wx_now')
        /\ (IsGetOf(c, f) /\ Expired(f))
            => (wx_calls' = wx_calls + 1 /\ wx_pc'[c] = "request")]_vars

\* C23: a get_weather call that fails ends in a WeatherError and leaves
\* cache and timestamps as they were; a call served in mock mode calls no
\* backend and leaves them as they were too.
C23_FailedGetLeavesCache ==
    [][/\ (\E c \in WxCallers : wx_pc[c] = "check" /\ wx_pc'[c] = "request")
            => /\ wx_cache' = wx_cache
               /\ wx_stamp' = wx_stamp
       /\ wx_last'.kind = "error"
            => /\ wx_last'.error = "weather"
               /\ wx_cache' = wx_cache
               /\ wx_stamp' = wx_stamp
       /\ wx_last'.kind = "mock"
            => /\ wx_calls' = wx_calls
               /\ wx_cache' = wx_cache
               /\ wx_stamp' = wx_stamp]_vars

\* The backend has failed on a get for an expired entry, which is still
\* there with its old timestamp.
C23_Witness ==
    /\ wx_last.kind = "error"
    /\ wx_last.format = "temp"
    /\ wx_calls = 2
    /\ wx_cache["temp"] = BackendValue(1)
    /\ wx_now - wx_stamp["temp"] >= WxTTL

\* A control_lights("on", ...) call has returned.
OnDone == lit_action = "on" /\ lit_result \in { "true", "error" }
\* Positions of the invocations of command c among those made.
SentOf(c) == { i \in 1..Len(lit_sent) : lit_sent[i][1] = c }
\* The call got as far as the brightness step, and past it.
SwitchedOn == lit_dev["switch"] = "ok"
PastBrightness ==
    SwitchedOn /\ (lit_brightness.given => lit_dev["brightness"] # "timeout")

\* C24: a brightness command sent by control_lights("on", brightness=b)
\* carries min(100, max(0, b)); it is sent once the on command went through
\* when b is given, and never when brightness is absent.
C24_BrightnessClamped ==
    OnDone =>
        LET b == lit_brightness.value
            lo == IF b > 0 THEN b ELSE 0
            want == IF lo < 100 THEN lo ELSE 100
        IN  /\ \A i \in SentOf("brightness") :
                lit_brightness.given /\ lit_sent[i][2] = want
            /\ (lit_brightness.given /\ SwitchedOn)
                => Cardinality(SentOf("brightness")) = 1
            /\ ~lit_brightness.given => SentOf("brightness") = {}

\* Brightness 150 was asked for and the device was sent 100.
C24_Witness ==
    /\ OnDone
    /\ lit_brightness = [given |-> TRUE, value |-> 150]
    /\ \E i \in SentOf("brightness") : lit_sent[i][2] = 100
    /\ lit_result = "true"

\* The table key a color name stands for, whatever its case; "" if none.
KeyOf(c) ==
    IF c \in { "red", "RED" } THEN "red"
    ELSE IF c \in { "white", "White" } THEN "white"
    ELSE ""

\* C25: control_lights("on", color=c) sends a color command only for a
\* name that is, case-insensitively, a key of the table, and then with the
\* table's triple; for such a name the command is sent once the call has
\* reached the color step; an unknown, empty or absent name sends none and
\* the call that reached the color step succeeds.
C25_ColorResolvedThroughTable ==
    OnDone =>
        /\ \A i \in SentOf("hsv") :
            /\ KeyOf(lit_color) # ""
            /\ lit_sent[i][2] = ColorTable[KeyOf(lit_color)]
        /\ (PastBrightness /\ KeyOf(lit_color) # "")
            => Cardinality(SentOf("hsv")) = 1
        /\ (PastBrightness /\ KeyOf(lit_color) = "")
            => (SentOf("hsv") = {} /\ lit_result = "true")

\* "RED" was asked for and the device was sent the triple of red.
C25_Witness ==
    /\ OnDone
    /\ lit_color = "RED"
    /\ \E i \in SentOf("hsv") : lit_sent[i][2] = << 0, 100, 80 >>
    /\ lit_result = "true"

\* The outcome of the i-th invocation made.
OutcomeOf(i) == lit_dev[lit_sent[i][1]]

\* C26: when an invocation made by control_lights has exited non-zero or
\* timed out, the call has ended in a SmartLightError.
C26_DeviceFailureFailsCall ==
    (lit_action \in { "on", "off" } /\ lit_result \in { "true", "error" }
        /\ \E i \in 1..Len(lit_sent) : OutcomeOf(i) # "ok")
        => lit_result = "error"

\* logic.py:346, 359, 369, 373  the messages that tell the user of a failure
FailureSaid == ErrorSaid \cup { "music_failed" }

\* C27: when the collaborator call of the current command has failed, the
\* handler has printed one of its failure messages.
C27_FailureToldToUser ==
    called.outcome = "fail" => said \in FailureSaid

\* stop() has been called.
StopCalled == cam_stop_pc # "idle" \/ cam_stops > 0
\* No worker thread is running.
NoWorker == cam_thread \in { "new", "dead" }

\* C28: a worker thread that has ended has left no capture stream open,
\* whichever way its loop ended; and once stop() has been called, the worker
\* eventually is not running any more, for good, with the stream released.
C28_StopReleasesStream ==
    /\ [](cam_thread = "dead" => cam_vs # "open")
    /\ (StopCalled ~> [](NoWorker /\ cam_vs # "open"))

\* C29: stop() can be called in every state and returns; a stop() after a
\* completed stop() changes neither the flag nor the worker nor what
\* start() reported, and a stream that is as a stop() leaves it (none or
\* released, not opened by the worker since) stays as it is.
C29_StopIdempotent ==
    /\ [][(cam_stop_pc' # cam_stop_pc /\ cam_stops >= 1)
            => /\ cam_running' = cam_running
               /\ cam_thread' = cam_thread
               /\ cam_start' = cam_start
               /\ cam_frames' = cam_frames
               /\ cam_vs # "open" => cam_vs' = cam_vs]_vars
    /\ []((cam_stop_pc = "idle" /\ cam_stops < MaxStops) => ENABLED StopBegin)
    /\ (cam_stop_pc # "idle" ~> cam_stop_pc = "idle")

\* stop() has been called twice on a Detector whose worker had run.
C29_Witness ==
    /\ cam_stops >= 2
    /\ cam_start = "ok"
    /\ cam_thread = "dead"
    /\ cam_vs = "released"
    /\ ~cam_running

\* The worker has left its initialization before a stream was opened.
InitFailed == cam_thread \in { "finally", "dead" } /\ cam_vs = "none"

\* C30: when the camera/stream initialization has failed, start() has
\* reported an error to its caller, and the running flag is not left set
\* with no worker behind it.
C30_InitFailureAbortsStart ==
    InitFailed
        => /\ cam_start = "error"
           /\ (cam_thread = "dead" /\ ~StopCalled) => ~cam_running

\* A step of the worker in which a pass of the loop body ends on a missing
\* frame or on an exception.
FramePassFails ==
    /\ cam_thread \in { "frame", "faces" }
    /\ cam_thread' # cam_thread
    /\ det_last' \in { "null", "raised" }

\* C31: a pass of the loop body that ends on a missing frame or on an
\* exception takes the worker back to the loop test with the running flag,
\* the stream and the last emitted identity as they were; the loop test of a
\* running Detector takes up the next frame; and after such a pass the
\* worker does reach the next frame unless the Detector is stopped.
C31_FrameFailureNeverEndsLoop ==
    /\ [][FramePassFails
            => /\ cam_thread' = "loop"
               /\ cam_running' = cam_running
               /\ cam_vs' = cam_vs
               /\ currentname' = currentname]_vars
    /\ [][(cam_thread = "loop" /\ cam_thread' # cam_thread /\ cam_running)
            => cam_thread' = "frame"]_vars
    /\ ((cam_thread = "loop" /\ det_last \in { "null", "raised" })
            ~> (cam_thread = "frame" \/ ~cam_running))

\* After a pass of the loop body that raised, the Detector is still running
\* and its worker has taken up the next frame.
C31_Witness ==
    /\ det_last = "raised"
    /\ cam_running
    /\ cam_thread = "frame"
    /\ cam_vs = "open"

\* A step of the Detector worker inside its `with self._lock:` block.
WorkerAccess == cam_thread = "write" /\ cam_thread' # cam_thread
\* A step of the main thread inside an accessor's `with self._lock:` block.
MainAccess ==
    orch_pc \in { "poll_in", "get_in", "reset_in" } /\ orch_pc' # orch_pc

\* C32: `changed` goes from false to true, and current_name is written,
\* only in a step of the Detector worker; `changed` goes from true to false
\* only in the main thread's reset; and each thread makes its accesses to
\* the two fields while it holds the lock.
C32_BoxRolesDisjoint ==
    /\ [][((new_person_found' /\ ~new_person_found) \/ person' # person)
            => (WorkerAccess /\ ~MainAccess)]_vars
    /\ [][(new_person_found /\ ~new_person_found')
            => (MainAccess /\ orch_pc = "reset_in" /\ ~WorkerAccess)]_vars
    /\ [][WorkerAccess => box_lock = "detector"]_vars
    /\ [][MainAccess => box_lock = "orchestrator"]_vars

\* The main thread is inside reset_new_person_found, holding the lock, after
\* an earlier write of the worker, while the worker waits for the lock to
\* write the next identity.
C32_Witness ==
    /\ orch_pc = "reset_in"
    /\ box_lock = "orchestrator"
    /\ cam_thread = "lock"
    /\ person # ""
    /\ new_person_found

\* The worker thread has been started and has not ended.
WorkerAlive == cam_thread \notin { "new", "dead" }

\* The Detector's state: 0 Idle (not started, no stop), 1 Running (the flag
\* is set), 2 Stopping (the flag is cleared, the worker has not ended yet),
\* 3 Stopped.
DetectorState ==
    IF cam_start = "none" /\ ~StopCalled THEN 0
    ELSE IF cam_running THEN 1
    ELSE IF WorkerAlive THEN 2
    ELSE 3

\* A step that writes IdentityBox.
BoxWritten ==
    \/ person' # person
    \/ new_person_found' /\ ~new_person_found
    \/ det_writes' > det_writes

\* C33: the Detector's state never goes back (Idle, Running, Stopping,
\* Stopped); the worker takes up a frame only while the flag is set;
\* IdentityBox is written only by a worker that is inside a frame, so never
\* before start() and never after the worker has seen the cleared flag and
\* ended.
C33_DetectorStatesInOrder ==
    /\ [][DetectorState' >= DetectorState]_vars
    /\ [][(cam_thread = "loop" /\ cam_thread' = "frame") => cam_running]_vars
    /\ [][BoxWritten => (cam_start = "ok" /\ cam_thread = "write")]_vars
    /\ [](cam_start = "none" => (person = "" /\ ~new_person_found))
    /\ [][(cam_thread \in { "report", "finally", "dead" })
            => (~BoxWritten
                /\ cam_thread' \in { "report", "finally", "dead" })]_vars

\* The Detector has gone through all four states: it was started, wrote an
\* identity, processed frames, was stopped, and its worker has ended.
C33_Witness ==
    /\ DetectorState = 3
    /\ cam_start = "ok"
    /\ cam_thread = "dead"
    /\ cam_stops >= 1
    /\ cam_frames >= 1
    /\ person # ""

\* The names of the matched faces of the current frame, in face order.
MatchedNames == SelectSeq(det_names, LAMBDA n : n # "Unknown")

\* The current frame has shown two different known persons so far.
TwoPersons ==
    \E i, j \in 1..Len(MatchedNames) : MatchedNames[i] # MatchedNames[j]

\* A step of the worker that processes one more face of the frame.
FaceProcessed == Len(det_names') = Len(det_names) + 1

\* The name of the face such a step has processed.
FaceSeen == det_names'[Len(det_names')]

\* C34: each face of a frame is processed once, in face order, against the
\* local last-emitted identity as the faces before it left it: a matched
\* face whose name differs from it updates it and goes on to a write of its
\* own, any other face changes nothing; each write stores the local
\* identity. So whenever the worker is between two faces of a frame that has
\* shown two different known persons, that frame has been written at least
\* once, whatever was emitted before it, and IdentityBox holds the name of
\* the last matched face.
C34_EachFaceDebouncedInOrder ==
    /\ [][FaceProcessed
            => IF FaceSeen # "Unknown" /\ FaceSeen # currentname
               THEN currentname' = FaceSeen /\ cam_thread' = "lock"
               ELSE currentname' = currentname /\ cam_thread' = "faces"]_vars
    /\ [][(det_writes' # det_writes)
            => \/ det_writes' = 0 /\ cam_thread = "frame"
               \/ /\ det_writes' = det_writes + 1
                  /\ person' = currentname
                  /\ new_person_found']_vars
    /\ []((cam_thread = "faces" /\ TwoPersons)
            => /\ det_writes >= 1
               /\ person = MatchedNames[Len(MatchedNames)]
               /\ currentname = person)

\* A frame showing Alice and then Bob, read after an earlier frame when the
\* last identity emitted was not Alice (as when that frame is repeated): both
\* faces have been written and IdentityBox holds Bob.
C34_Witness ==
    /\ cam_thread = "faces"
    /\ det_names = << "Alice", "Bob" >>
    /\ det_writes = 2
    /\ person = "Bob"
    /\ cam_frames >= 1

\* A step in which a Dispatcher leaves its loop on EOF at the command prompt.
EofExit == \E w \in Workers : worker_pc[w] = "input" /\ worker_pc'[w] = "dead"

\* Users are logged in, no Dispatcher thread is alive and none is about to
\* be started, and the running flag is set.
Orphaned ==
    /\ statuses # << >>
    /\ AliveWorkers = {}
    /\ orch_pc \notin { "li_spawn", "li_run" }
    /\ users_running

\* C35: when a Dispatcher leaves its loop on EOF while users are queued and
\* no other Dispatcher is alive, the running flag is left set and the queue
\* non-empty with no Dispatcher; from then on no step empties the queue,
\* clears the flag or starts a Dispatcher, whatever logins follow.
C35_EofOrphansSessions ==
    /\ [][(EofExit /\ statuses # << >> /\ AliveWorkers' = {}) => Orphaned']_vars
    /\ [][Orphaned
            => /\ Orphaned'
               /\ worker_pc' = worker_pc
               /\ Len(statuses') >= Len(statuses)]_vars

====
